---- MODULE Spec2Model ----
(***************************************************************************)
(* DevBolt feature-flag core: Hasher, FlagEvaluator, ConfigValidator,      *)
(* ConfigParser and FlagEngine (packages/core/src), and the SDK client     *)
(* DevBoltClient (packages/sdk-js/src).  JavaScript values are tagged records, strings are *)
(* atoms whose characters are given by Chars, and every JavaScript         *)
(* coercion the evaluator performs (truthiness, String(), Number(),        *)
(* toLowerCase, ===) is an operator that computes what the runtime does.   *)
(*                                                                         *)
(* Object keys (environment names, attribute names, flag names) range over *)
(* names that are not members of Object.prototype, so a property read      *)
(* obj[key] is an own-property lookup.                                     *)
(***************************************************************************)
EXTENDS Integers, Sequences, FiniteSets, TLC

VARIABLES config, last, strict, client, file

vars == <<config, last, strict, client, file>>

(***************************************************************************)
(* JavaScript values                                                       *)
(***************************************************************************)
Undefined == [t |-> "undefined"]

Str(s) == [t |-> "string", s |-> s]

Num(n) == [t |-> "number", n |-> n]

Bool(b) == [t |-> "boolean", b |-> b]

Null == [t |-> "null"]

NaN == [t |-> "NaN"]

\* A plain object with own properties o (a function from keys to values).
Obj(o) == [t |-> "object", o |-> o]

\* An array with elements a (a sequence).
Arr(a) == [t |-> "array", a |-> a]

\* obj[key]: the own property, or undefined.
Get(obj, key) == IF key \in DOMAIN obj.o THEN obj.o[key] ELSE Undefined

IsStr(v) == v.t = "string"

\* ToBoolean: undefined, "", 0, NaN and false are falsy.
Truthy(v) ==
  CASE v.t = "undefined" -> FALSE
    [] v.t = "string" -> v.s # ""
    [] v.t = "number" -> v.n # 0
    [] v.t = "boolean" -> v.b
    [] v.t = "object" -> TRUE
    [] v.t = "array" -> TRUE
    [] OTHER -> FALSE

\* a || b
Or(a, b) == IF Truthy(a) THEN a ELSE b

\* The characters (UTF-16 code units; all ASCII here) of each string atom.
Chars(s) ==
  CASE s = "" -> <<>>
    [] s = "u1" -> <<"u", "1">>
    [] s = "u2" -> <<"u", "2">>
    [] s = "U1" -> <<"U", "1">>
    [] s = "a@x" -> <<"a", "@", "x">>
    [] s = "b@x" -> <<"b", "@", "x">>
    [] s = "@x" -> <<"@", "x">>
    [] s = "^a" -> <<"^", "a">>
    [] s = "x$" -> <<"x", "$">>
    [] s = "a.x" -> <<"a", ".", "x">>
    [] s = "(" -> <<"(">>
    [] s = "a" -> <<"a">>
    [] s = "A" -> <<"A">>
    [] s = "prod" -> <<"p", "r", "o", "d">>
    [] s = "dev" -> <<"d", "e", "v">>
    [] s = "pro" -> <<"p", "r", "o">>
    [] s = "Pro" -> <<"P", "r", "o">>
    [] s = "pr" -> <<"p", "r">>
    [] s = "PR" -> <<"P", "R">>
    [] s = "30" -> <<"3", "0">>
    [] s = "18" -> <<"1", "8">>
    [] s = "abc" -> <<"a", "b", "c">>
    [] s = "true" -> <<"t", "r", "u", "e">>
    [] s = "s1" -> <<"s", "1">>
    [] s = "s2" -> <<"s", "2">>
    [] s = "f1" -> <<"f", "1">>
    [] s = "f2" -> <<"f", "2">>
    [] s = "anonymous" -> <<"a", "n", "o", "n", "y", "m", "o", "u", "s">>
    [] s = "devbolt" -> <<"d", "e", "v", "b", "o", "l", "t">>
    [] s = "f3" -> <<"f", "3">>
    [] s = "plan" -> <<"p", "l", "a", "n">>
    [] s = "email" -> <<"e", "m", "a", "i", "l">>
    [] s = "age" -> <<"a", "g", "e">>
    [] s = "userId" -> <<"u", "s", "e", "r", "I", "d">>
    [] s = "environment" ->
         <<"e", "n", "v", "i", "r", "o", "n", "m", "e", "n", "t">>
    [] s = "1" -> <<"1">>
    [] s = "2" -> <<"2">>
    [] s = "10" -> <<"1", "0">>
    [] s = "01" -> <<"0", "1">>
    [] s = "F1" -> <<"F", "1">>
    [] s = "a-b_1" -> <<"a", "-", "b", "_", "1">>
    [] s = "a*101" -> [i \in 1..101 |-> "a"]
    [] s = "a*501" -> [i \in 1..501 |-> "a"]
    [] s = "not found" -> <<"n", "o", "t", " ", "f", "o", "u", "n", "d">>
    [] s = "Flag not found" ->
         <<"F", "l", "a", "g", " ", "n", "o", "t", " ", "f", "o", "u", "n", "d">>

Digits == <<"0", "1", "2", "3", "4", "5", "6", "7", "8", "9">>

RECURSIVE NatChars(_)
NatChars(n) ==
  IF n < 10 THEN <<Digits[n + 1]>>
  ELSE NatChars(n \div 10) \o <<Digits[(n % 10) + 1]>>

\* String(v) as a character sequence.
StringOf(v) ==
  CASE v.t = "string" -> Chars(v.s)
    [] v.t = "number" ->
         IF v.n < 0 THEN <<"-">> \o NatChars(0 - v.n) ELSE NatChars(v.n)
    [] v.t = "boolean" ->
         IF v.b THEN <<"t", "r", "u", "e">> ELSE <<"f", "a", "l", "s", "e">>
    [] v.t = "undefined" ->
         <<"u", "n", "d", "e", "f", "i", "n", "e", "d">>
    [] v.t = "null" -> <<"n", "u", "l", "l">>

UpperToLower ==
  [c \in {"A", "P", "R", "U"} |->
     CASE c = "A" -> "a" [] c = "P" -> "p" [] c = "R" -> "r" [] c = "U" -> "u"]

\* String.prototype.toLowerCase
toLowerCase(cs) ==
  [i \in 1..Len(cs) |->
     IF cs[i] \in DOMAIN UpperToLower THEN UpperToLower[cs[i]] ELSE cs[i]]

\* String.prototype.startsWith / endsWith / includes
startsWith(cs, p) ==
  /\ Len(p) <= Len(cs)
  /\ SubSeq(cs, 1, Len(p)) = p

endsWith(cs, p) ==
  /\ Len(p) <= Len(cs)
  /\ SubSeq(cs, Len(cs) - Len(p) + 1, Len(cs)) = p

includes(cs, p) ==
  \E i \in 0..(Len(cs) - Len(p)) : SubSeq(cs, i + 1, i + Len(p)) = p

DigitValue(c) == CHOOSE d \in 0..9 : Digits[d + 1] = c

IsDigit(c) == \E d \in 0..9 : Digits[d + 1] = c

RECURSIVE DigitsToNat(_)
DigitsToNat(cs) ==
  IF cs = <<>> THEN 0
  ELSE 10 * DigitsToNat(SubSeq(cs, 1, Len(cs) - 1)) + DigitValue(cs[Len(cs)])

\* Number(v): a decimal integer literal, the empty string (0), a boolean
\* (1 / 0) or a number converts; any other string is NaN.
NumberOf(v) ==
  CASE v.t = "number" -> v
    [] v.t = "boolean" -> Num(IF v.b THEN 1 ELSE 0)
    [] v.t = "null" -> Num(0)
    [] v.t = "string" ->
         LET cs == Chars(v.s) IN
         IF cs = <<>> THEN Num(0)
         ELSE IF \A i \in 1..Len(cs) : IsDigit(cs[i]) THEN Num(DigitsToNat(cs))
         ELSE IF /\ Len(cs) > 1
                 /\ cs[1] = "-"
                 /\ \A i \in 2..Len(cs) : IsDigit(cs[i])
              THEN Num(0 - DigitsToNat(Tail(cs)))
         ELSE NaN
    [] OTHER -> NaN

\* Relational comparison of two Number() results: false when either is NaN.
NumLess(a, b) == a.t = "number" /\ b.t = "number" /\ a.n < b.n

NumLessEq(a, b) == a.t = "number" /\ b.t = "number" /\ a.n <= b.n

(***************************************************************************)
(* RegExp: the pattern syntax the model covers is literal characters, "."  *)
(* (any character), a leading "^" and a trailing "$"; a pattern with       *)
(* unbalanced parentheses does not compile (SyntaxError).                  *)
(***************************************************************************)
CountOf(cs, c) == Cardinality({i \in 1..Len(cs) : cs[i] = c})

\* new RegExp(p) throws
RegExpThrows(p) == CountOf(p, "(") # CountOf(p, ")")

\* new RegExp(p).test(cs), for a pattern that compiles
RegExpTest(p, cs) ==
  LET atStart == Len(p) > 0 /\ p[1] = "^"
      p1 == IF atStart THEN Tail(p) ELSE p
      atEnd == Len(p1) > 0 /\ p1[Len(p1)] = "$"
      body == IF atEnd THEN SubSeq(p1, 1, Len(p1) - 1) ELSE p1
      matchesAt(i) ==
        \A k \in 1..Len(body) : body[k] = "." \/ body[k] = cs[i + k]
  IN \E i \in 0..(Len(cs) - Len(body)) :
       /\ atStart => i = 0
       /\ atEnd => i + Len(body) = Len(cs)
       /\ matchesAt(i)

(***************************************************************************)
(* Hasher (hasher.ts)                                                      *)
(***************************************************************************)
DEFAULT_SEED == "devbolt"

Lowercase ==
  <<"a", "b", "c", "d", "e", "f", "g", "h", "i", "j", "k", "l", "m",
    "n", "o", "p", "q", "r", "s", "t", "u", "v", "w", "x", "y", "z">>

Uppercase ==
  <<"A", "B", "C", "D", "E", "F", "G", "H", "I", "J", "K", "L", "M",
    "N", "O", "P", "Q", "R", "S", "T", "U", "V", "W", "X", "Y", "Z">>

Punctuation == {"$", "(", ")", "-", ".", ":", "@", "^", "_"}

\* The UTF-8 byte of each ASCII character.
CharCodes ==
  [c \in {Lowercase[i] : i \in 1..26} \cup {Uppercase[i] : i \in 1..26}
          \cup {Digits[i] : i \in 1..10} \cup Punctuation |->
     IF \E i \in 1..26 : Lowercase[i] = c
       THEN 96 + (CHOOSE i \in 1..26 : Lowercase[i] = c)
     ELSE IF \E i \in 1..26 : Uppercase[i] = c
       THEN 64 + (CHOOSE i \in 1..26 : Uppercase[i] = c)
     ELSE IF IsDigit(c) THEN 48 + DigitValue(c)
     ELSE CASE c = "$" -> 36 [] c = "(" -> 40 [] c = ")" -> 41 [] c = "-" -> 45
            [] c = "." -> 46 [] c = ":" -> 58 [] c = "@" -> 64 [] c = "^" -> 94
            [] c = "_" -> 95]

CharCode(c) == CharCodes[c]

HexDigits ==
  <<"0", "1", "2", "3", "4", "5", "6", "7",
    "8", "9", "a", "b", "c", "d", "e", "f">>

\* Four lowercase hex characters of a 16-bit word.
Hex4(w) ==
  <<HexDigits[((w \div 4096) % 16) + 1], HexDigits[((w \div 256) % 16) + 1],
    HexDigits[((w \div 16) % 16) + 1], HexDigits[(w % 16) + 1]>>

\* One 16-bit word mixed from the bytes 1..n, with multiplier m from h0.
RECURSIVE Mix(_, _, _, _)
Mix(bytes, n, h0, m) ==
  IF n = 0 THEN h0
  ELSE (Mix(bytes, n - 1, h0, m) * m + CharCodes[bytes[n]]) % 65536

\* createHash("sha256").update(input).digest("hex").substring(0, 8).
\* The digest is a fixed function of the input bytes; SHA-256 is represented
\* by a 32-bit mixing function of the same bytes (two 16-bit words).
sha256Hex8(bytes) ==
  Hex4(Mix(bytes, Len(bytes), 7, 31)) \o Hex4(Mix(bytes, Len(bytes), 1, 131))

HexValue(c) == (CHOOSE i \in 1..16 : HexDigits[i] = c) - 1

RECURSIVE HexToNat(_)
HexToNat(cs) ==
  IF cs = <<>> THEN 0
  ELSE 16 * HexToNat(SubSeq(cs, 1, Len(cs) - 1)) + HexValue(cs[Len(cs)])

\* parseInt(hex8, 16): an unsigned 32-bit integer, kept as its two 16-bit
\* halves (the value is hi * 65536 + lo).
parseIntHex8(cs) ==
  [hi |-> HexToNat(SubSeq(cs, 1, 4)), lo |-> HexToNat(SubSeq(cs, 5, 8))]

\* Mutant of Mod100: the 8 hex characters are read as a signed 32-bit integer
\* (hashNumber | 0), whose remainder keeps the sign; 2^32 % 100 = 96.
Mod100_signed(hn) ==
  LET u == ((hn.hi % 100) * 36 + hn.lo) % 100 IN
  IF hn.hi >= 32768 THEN 0 - ((96 + 100 - u) % 100) ELSE u

\* hashNumber % 100, with 65536 % 100 = 36
Mod100(hn) == ((hn.hi % 100) * 36 + hn.lo) % 100

\* Hasher.getBucket(flagName, identifier, seed): flagName is a string atom,
\* identifier and seed are JavaScript values.
getBucket(flagName, identifier, seed) ==
  LET hashInput == StringOf(Or(seed, Str(DEFAULT_SEED))) \o <<":">>
                     \o Chars(flagName) \o <<":">> \o StringOf(identifier)
      hash == sha256Hex8(hashInput)
      hashNumber == parseIntHex8(hash)
  IN Mod100(hashNumber)

\* Mutant of isInRollout: the comparison is turned round.
isInRollout_reversed(flagName, identifier, percentage, seed) ==
  IF percentage = 0 THEN FALSE
  ELSE IF percentage = 100 THEN TRUE
  ELSE getBucket(flagName, identifier, seed) >= percentage

\* Mutant of isInRollout: the two boundary answers are exchanged.
isInRollout_boundariesSwapped(flagName, identifier, percentage, seed) ==
  IF percentage = 0 THEN TRUE
  ELSE IF percentage = 100 THEN FALSE
  ELSE getBucket(flagName, identifier, seed) < percentage

\* Hasher.isInRollout(flagName, identifier, percentage, seed)
isInRollout(flagName, identifier, percentage, seed) ==
  IF percentage = 0 THEN FALSE
  ELSE IF percentage = 100 THEN TRUE
  ELSE getBucket(flagName, identifier, seed) < percentage

(***************************************************************************)
(* FlagEvaluator (evaluator.ts)                                            *)
(*                                                                         *)
(* A FlagConfig is [enabled, environments, targeting, rollout]; an absent  *)
(* optional field is Undefined.  A TargetingRule is [attribute, operator,  *)
(* value, values, enabled, description].  An EvaluationContext is [userId, *)
(* email, environment, customAttributes, hashSeed].  The result omits      *)
(* metadata.timestamp (Date.now()), which no decision reads.               *)
(***************************************************************************)
Return(v) == [t |-> "return", v |-> v]

Throw(e) == [t |-> "throw", e |-> e]

\* FlagEvaluator.createResult
createResult(flagName, enabled, reason, additionalMetadata) ==
  [flagName |-> flagName,
   enabled |-> enabled,
   reason |-> reason,
   metadata |-> additionalMetadata]

NoMetadata == [matchedRule |-> Undefined, rolloutBucket |-> Undefined]

\* Mutant of evaluateEnvironment: the override is tested for truthiness
\* ("if (!envEnabled) return null"), so an override to false is skipped.
evaluateEnvironment_truthyOnly(flagName, fc, context) ==
  IF ~Truthy(fc.environments) \/ ~Truthy(context.environment) THEN Null
  ELSE LET envEnabled == Get(fc.environments, context.environment.s) IN
       IF ~Truthy(envEnabled) THEN Null
       ELSE [t |-> "object",
             enabled |-> envEnabled.b,
             reason |-> [text |-> "Environment override: ",
                         env |-> context.environment.s]]

\* FlagEvaluator.evaluateEnvironment: Null, or [enabled, reason].  The values
\* of environments are booleans (Bool(b)); enabled is the boolean itself.
evaluateEnvironment(flagName, fc, context) ==
  IF ~Truthy(fc.environments) \/ ~Truthy(context.environment) THEN Null
  ELSE LET envEnabled == Get(fc.environments, context.environment.s) IN
       IF envEnabled = Undefined THEN Null
       ELSE [t |-> "object",
             enabled |-> envEnabled.b,
             reason |-> [text |-> "Environment override: ",
                         env |-> context.environment.s]]

\* FlagEvaluator.getAttributeValue
getAttributeValue(attribute, context) ==
  IF attribute = "userId" THEN context.userId
  ELSE IF attribute = "email" THEN context.email
  ELSE IF attribute = "environment" THEN context.environment
  ELSE IF context.customAttributes \in {Undefined, Null} THEN Undefined
  ELSE Get(context.customAttributes, attribute)

\* Array.prototype.includes (SameValueZero; no NaN among the values)
arrayIncludes(arr, v) == \E i \in 1..Len(arr.a) : arr.a[i] = v

\* The switch of ruleMatches on rule.operator, for a present attribute value:
\* the completion (Return(boolean) or Throw) of the try block's body.
operatorSwitch(rule, attributeValue) ==
  LET a == toLowerCase(StringOf(attributeValue))
      v == toLowerCase(StringOf(rule.value))
      op == rule.operator
  IN CASE op = "equals" -> Return(attributeValue = rule.value)
       [] op = "not_equals" -> Return(attributeValue # rule.value)
       [] op = "in" ->
            Return(IF rule.values = Undefined THEN FALSE
                   ELSE arrayIncludes(rule.values, attributeValue))
       [] op = "not_in" ->
            Return(~(IF rule.values = Undefined THEN TRUE
                     ELSE arrayIncludes(rule.values, attributeValue)))
       [] op = "contains" -> Return(includes(a, v))
       [] op = "not_contains" -> Return(~includes(a, v))
       [] op = "starts_with" -> Return(startsWith(a, v))
       [] op = "ends_with" -> Return(endsWith(a, v))
       [] op = "greater_than" ->
            Return(NumLess(NumberOf(rule.value), NumberOf(attributeValue)))
       [] op = "less_than" ->
            Return(NumLess(NumberOf(attributeValue), NumberOf(rule.value)))
       [] op = "greater_than_or_equal" ->
            Return(NumLessEq(NumberOf(rule.value), NumberOf(attributeValue)))
       [] op = "less_than_or_equal" ->
            Return(NumLessEq(NumberOf(attributeValue), NumberOf(rule.value)))
       [] op = "matches_regex" ->
            IF RegExpThrows(StringOf(rule.value)) THEN Throw("SyntaxError")
            ELSE Return(RegExpTest(StringOf(rule.value),
                                   StringOf(attributeValue)))
       [] OTHER -> Return(FALSE)

\* Mutant of ruleMatches: no early return for an absent attribute.
ruleMatches_noAbsentCheck(rule, context) ==
  LET attributeValue == getAttributeValue(rule.attribute, context)
      c == operatorSwitch(rule, attributeValue)
  IN IF c.t = "throw" THEN Return(FALSE) ELSE c

\* Mutant of ruleMatches: no try / catch around the switch.
ruleMatches_noCatch(rule, context) ==
  LET attributeValue == getAttributeValue(rule.attribute, context) IN
  IF attributeValue = Undefined \/ attributeValue = Null THEN Return(FALSE)
  ELSE operatorSwitch(rule, attributeValue)

\* FlagEvaluator.ruleMatches: the completion of the call.  The catch clause
\* turns a throw of the switch into "return false".
ruleMatches(rule, context) ==
  LET attributeValue == getAttributeValue(rule.attribute, context) IN
  IF attributeValue = Undefined \/ attributeValue = Null THEN Return(FALSE)
  ELSE LET c == operatorSwitch(rule, attributeValue) IN
       IF c.t = "throw" THEN Return(FALSE) ELSE c

\* Mutant of targetingFrom: the loop does not return at the first match, so
\* the last matching rule decides.
RECURSIVE targetingFrom_lastMatch(_, _, _)
targetingFrom_lastMatch(rules, context, i) ==
  IF i > Len(rules) THEN Return(Null)
  ELSE LET m == ruleMatches(rules[i], context)
           later == targetingFrom_lastMatch(rules, context, i + 1)
       IN
       IF m.t = "throw" THEN m
       ELSE IF later.t = "throw" \/ later.v # Null THEN later
       ELSE IF m.v
         THEN Return([t |-> "object",
                      enabled |-> rules[i].enabled,
                      reason |-> [text |-> "Matched targeting rule #",
                                  n |-> i,
                                  description |->
                                    IF Truthy(rules[i].description)
                                      THEN rules[i].description.s ELSE ""],
                      ruleIndex |-> i - 1])
       ELSE Return(Null)

\* The loop of evaluateTargeting from rule i (1-based) on: the completion of
\* the call, returning Null or [enabled, reason, ruleIndex] (0-based index).
RECURSIVE targetingFrom(_, _, _)
targetingFrom(rules, context, i) ==
  IF i > Len(rules) THEN Return(Null)
  ELSE LET m == ruleMatches(rules[i], context) IN
       IF m.t = "throw" THEN m
       ELSE IF m.v
         THEN Return([t |-> "object",
                      enabled |-> rules[i].enabled,
                      reason |-> [text |-> "Matched targeting rule #",
                                  n |-> i,
                                  description |->
                                    IF Truthy(rules[i].description)
                                      THEN rules[i].description.s ELSE ""],
                      ruleIndex |-> i - 1])
       ELSE targetingFrom(rules, context, i + 1)

\* FlagEvaluator.evaluateTargeting
evaluateTargeting(flagName, fc, context) ==
  IF ~Truthy(fc.targeting) \/ Len(fc.targeting.a) = 0 THEN Return(Null)
  ELSE targetingFrom(fc.targeting.a, context, 1)

\* Mutant of evaluateRollout: the e-mail address is preferred to the user id.
evaluateRollout_emailFirst(flagName, fc, context) ==
  IF ~Truthy(fc.rollout) THEN Null
  ELSE LET identifier == Or(Or(context.email, context.userId), Str("anonymous"))
           seed == Or(fc.rollout.seed, context.hashSeed)
           bucket == getBucket(flagName, identifier, seed)
           inRollout == bucket < fc.rollout.percentage
       IN [t |-> "object",
           enabled |-> inRollout,
           reason |-> [text |-> "Rollout % (user bucket: )",
                       percentage |-> fc.rollout.percentage,
                       bucket |-> bucket],
           bucket |-> bucket]

\* Mutant of evaluateRollout: the percentage is taken for a fraction of 1.
evaluateRollout_fraction(flagName, fc, context) ==
  IF ~Truthy(fc.rollout) THEN Null
  ELSE LET identifier == Or(Or(context.userId, context.email), Str("anonymous"))
           seed == Or(fc.rollout.seed, context.hashSeed)
           bucket == getBucket(flagName, identifier, seed)
           inRollout == bucket * 100 < fc.rollout.percentage
       IN [t |-> "object",
           enabled |-> inRollout,
           reason |-> [text |-> "Rollout % (user bucket: )",
                       percentage |-> fc.rollout.percentage,
                       bucket |-> bucket],
           bucket |-> bucket]

\* FlagEvaluator.evaluateRollout: Null, or [enabled, reason, bucket]
evaluateRollout(flagName, fc, context) ==
  IF ~Truthy(fc.rollout) THEN Null
  ELSE LET identifier == Or(Or(context.userId, context.email), Str("anonymous"))
           seed == Or(fc.rollout.seed, context.hashSeed)
           bucket == getBucket(flagName, identifier, seed)
           inRollout == bucket < fc.rollout.percentage
       IN [t |-> "object",
           enabled |-> inRollout,
           reason |-> [text |-> "Rollout % (user bucket: )",
                       percentage |-> fc.rollout.percentage,
                       bucket |-> bucket],
           bucket |-> bucket]

\* Mutants of evaluate: the priority chain with one slip.
\*   "skipGlobal"      the global kill switch is not consulted
\*   "rolloutFirst"    the rollout tier is tried before targeting
\*   "defaultDisabled" the fall-through result is disabled
evaluateVariant(flagName, fc, context, slip) ==
  LET envResult == evaluateEnvironment(flagName, fc, context)
      targeting == evaluateTargeting(flagName, fc, context)
      rolloutResult == evaluateRollout(flagName, fc, context)
      byTargeting ==
        Return(createResult(flagName, targeting.v.enabled, targeting.v.reason,
                            [NoMetadata EXCEPT
                               !.matchedRule = Num(targeting.v.ruleIndex)]))
      byRollout ==
        Return(createResult(flagName, rolloutResult.enabled,
                            rolloutResult.reason,
                            [NoMetadata EXCEPT
                               !.rolloutBucket = Num(rolloutResult.bucket)]))
  IN
  IF Truthy(envResult)
    THEN Return(createResult(flagName, envResult.enabled, envResult.reason,
                             NoMetadata))
  ELSE IF ~fc.enabled /\ slip # "skipGlobal"
    THEN Return(createResult(flagName, FALSE,
                             [text |-> "Flag is disabled globally"],
                             NoMetadata))
  ELSE IF slip = "rolloutFirst" /\ Truthy(rolloutResult) THEN byRollout
  ELSE IF targeting.t = "throw" THEN targeting
  ELSE IF Truthy(targeting.v) THEN byTargeting
  ELSE IF Truthy(rolloutResult) THEN byRollout
  ELSE Return(createResult(flagName, slip # "defaultDisabled",
                           [text |-> "Flag is enabled for all users"],
                           NoMetadata))

evaluate_skipGlobal(flagName, fc, context) ==
  evaluateVariant(flagName, fc, context, "skipGlobal")

evaluate_rolloutFirst(flagName, fc, context) ==
  evaluateVariant(flagName, fc, context, "rolloutFirst")

evaluate_defaultDisabled(flagName, fc, context) ==
  evaluateVariant(flagName, fc, context, "defaultDisabled")

\* Mutant of evaluate: the two metadata fields are exchanged, the rule index
\* reported as rolloutBucket and the bucket as matchedRule.
evaluate_metadataExchanged(flagName, fc, context) ==
  LET r == evaluateVariant(flagName, fc, context, "none") IN
  IF r.t = "throw" THEN r
  ELSE Return([r.v EXCEPT !.metadata =
                 [matchedRule |-> r.v.metadata.rolloutBucket,
                  rolloutBucket |-> r.v.metadata.matchedRule]])

\* FlagEvaluator.evaluate: the completion of the call (Return(result), or the
\* exception a callee let escape).
evaluate(flagName, fc, context) ==
  LET envResult == evaluateEnvironment(flagName, fc, context) IN
  IF Truthy(envResult)
    THEN Return(createResult(flagName, envResult.enabled, envResult.reason,
                             NoMetadata))
  ELSE IF ~fc.enabled
    THEN Return(createResult(flagName, FALSE, [text |-> "Flag is disabled globally"],
                             NoMetadata))
  ELSE LET targeting == evaluateTargeting(flagName, fc, context) IN
  IF targeting.t = "throw" THEN targeting
  ELSE IF Truthy(targeting.v)
    THEN Return(createResult(flagName, targeting.v.enabled, targeting.v.reason,
                             [NoMetadata EXCEPT
                                !.matchedRule = Num(targeting.v.ruleIndex)]))
  ELSE LET rolloutResult == evaluateRollout(flagName, fc, context) IN
  IF Truthy(rolloutResult)
    THEN Return(createResult(flagName, rolloutResult.enabled,
                             rolloutResult.reason,
                             [NoMetadata EXCEPT
                                !.rolloutBucket = Num(rolloutResult.bucket)]))
  ELSE Return(createResult(flagName, TRUE, [text |-> "Flag is enabled for all users"],
                           NoMetadata))

(***************************************************************************)
(* FlagEngine (engine.ts)                                                  *)
(***************************************************************************)
\* Mutant of engineEvaluateWith: the strict option is not consulted.
engineEvaluateWith_ignoreStrict(cfg, strictMode, flagName, context) ==
  IF flagName \notin DOMAIN cfg
    THEN Return(createResult(flagName, FALSE, [text |-> "Flag not found"],
                             NoMetadata))
  ELSE evaluate(flagName, cfg[flagName], context)

\* FlagEngine.evaluate on the snapshot cfg of an engine whose strict option is
\* strictMode: the completion of the call.
engineEvaluateWith(cfg, strictMode, flagName, context) ==
  IF flagName \notin DOMAIN cfg
    THEN IF strictMode THEN Throw("FlagNotFoundError")
         ELSE Return(createResult(flagName, FALSE,
                                  [text |-> "Flag not found"], NoMetadata))
  ELSE evaluate(flagName, cfg[flagName], context)

\* FlagEngine.evaluate in non-strict mode (options.strict ?? false).
engineEvaluate(cfg, flagName, context) ==
  engineEvaluateWith(cfg, FALSE, flagName, context)

\* FlagEngine.getAllFlags(): a fresh array of the snapshot's keys (as a set;
\* the snapshot does not keep their order).  shares names the flags whose
\* configuration objects the returned value holds by reference.
getAllFlags(cfg) == [value |-> DOMAIN cfg, frozen |-> FALSE, shares |-> {}]

\* FlagEngine.getFlagConfig(flagName): this.config[flagName] itself.
getFlagConfig(cfg, flagName) ==
  IF flagName \in DOMAIN cfg
    THEN [value |-> Obj(cfg[flagName]), frozen |-> FALSE,
          shares |-> {flagName}]
  ELSE [value |-> Undefined, frozen |-> FALSE, shares |-> {}]

\* FlagEngine.getConfig(): Object.freeze({ ...this.config }), a frozen
\* shallow copy whose values are the snapshot's own flag objects.
getConfig(cfg) == [value |-> cfg, frozen |-> TRUE, shares |-> DOMAIN cfg]

(***************************************************************************)
(* Inputs                                                                  *)
(***************************************************************************)
\* Longest targeting list of the generated flag configurations.
MaxRules == 2

TARGETING_OPERATORS ==
  <<"equals", "not_equals", "in", "not_in", "contains", "not_contains",
    "starts_with", "ends_with", "greater_than", "less_than",
    "greater_than_or_equal", "less_than_or_equal", "matches_regex">>

Operators == {TARGETING_OPERATORS[i] : i \in 1..Len(TARGETING_OPERATORS)}

Rule(attribute, operator, value, values, enabled, description) ==
  [attribute |-> attribute, operator |-> operator, value |-> value,
   values |-> values, enabled |-> enabled, description |-> description]

\* A rule of the given operator: in / not_in carry values, the others value.
OpRule(attribute, operator, value, enabled) ==
  IF operator \in {"in", "not_in"}
    THEN Rule(attribute, operator, Undefined, Arr(<<value, Str("a@x")>>),
              enabled, Undefined)
  ELSE Rule(attribute, operator, value, Undefined, enabled, Undefined)

\* The rules the priority-chain configurations combine, in every order.
ChainRules ==
  {Rule("userId", "equals", Str("u1"), Undefined, FALSE, Str("abc")),
   Rule("plan", "not_equals", Str("pro"), Undefined, TRUE, Undefined)}

\* One rule per operator, attribute and operand.
OperatorRules ==
  {OpRule(p[1], op, p[2], TRUE) :
     op \in Operators,
     p \in {<<"email", Str("a@x")>>, <<"plan", Str("pr")>>,
            <<"age", Num(30)>>}}
  \cup {OpRule("email", "matches_regex", Str(v), TRUE) :
          v \in {"(", "^a", "x$", "a.x"}}

SeqsUpTo(S, n) == UNION {[1..k -> S] : k \in 0..n}

Environments ==
  {Undefined,
   Obj([e \in {"prod"} |-> Bool(TRUE)]),
   Obj([e \in {"", "prod"} |-> Bool(e = "")])}

Rollout(percentage, seed) ==
  [t |-> "object", percentage |-> percentage, seed |-> seed]

FlagConfig(enabled, environments, targeting, rollout) ==
  [enabled |-> enabled, environments |-> environments,
   targeting |-> targeting, rollout |-> rollout]

\* Every combination of the four tiers.
ChainConfigs ==
  {FlagConfig(en, envs, Arr(rules), ro) :
     en \in BOOLEAN, envs \in Environments,
     rules \in SeqsUpTo(ChainRules, MaxRules),
     ro \in {Undefined, Rollout(0, Undefined), Rollout(100, Undefined)}}

\* Enabled flags that reach the rollout tier whenever no rule matches.
RolloutConfigs ==
  {FlagConfig(TRUE, Undefined, tg, Rollout(p, seed)) :
     tg \in {Undefined,
             Arr(<<Rule("email", "matches_regex", Str("("), Undefined,
                        TRUE, Undefined)>>)},
     p \in {0, 1, 50, 99, 100},
     seed \in {Undefined, Str(""), Str("s2")}}

\* Enabled flags with one rule, and the flag with no optional field.
OperatorConfigs ==
  {FlagConfig(TRUE, Undefined, Arr(<<r>>), Undefined) : r \in OperatorRules}
  \cup {FlagConfig(TRUE, Undefined, Undefined, Undefined)}

FlagNames == {"f1", "f2"}

\* The snapshots the engine is constructed with.
InitialConfigs ==
  {[n \in {"f1"} |-> fc] : fc \in ChainConfigs \cup OperatorConfigs}
  \cup {[n \in {"f2"} |-> fc] : fc \in RolloutConfigs}

\* The snapshots updateConfig installs.
ReloadConfigs ==
  {<<>>,
   [n \in {"f2"} |-> FlagConfig(TRUE, Undefined, Undefined,
                                 Rollout(50, Undefined))],
   [n \in FlagNames |->
      FlagConfig(n = "f1", Obj([e \in {"dev"} |-> Bool(FALSE)]),
                 Arr(<<OpRule("environment", "in", Str("prod"), FALSE)>>),
                 Rollout(100, Str("s1")))]}

Context(userId, email, environment, customAttributes, hashSeed) ==
  [userId |-> userId, email |-> email, environment |-> environment,
   customAttributes |-> customAttributes, hashSeed |-> hashSeed]

\* Every combination of the identifier and seed sources.
IdentityContexts ==
  {Context(u, e, env, Undefined, hs) :
     u \in {Undefined, Str(""), Str("u1")}, e \in {Undefined, Str("a@x")},
     env \in {Undefined, Str("prod")}, hs \in {Undefined, Str("s1")}}

\* The empty environment name.
EnvironmentContexts ==
  {Context(u, Undefined, Str(""), Undefined, Undefined) :
     u \in {Undefined, Str("u1")}}

\* Custom attributes: absent, of each type, and null.
AttributeContexts ==
  {Context(u, Undefined, Undefined, Obj(ca), Undefined) :
     u \in {Undefined, Str("u1")},
     ca \in {[k \in {"plan", "age"} |->
                IF k = "plan" THEN Str("Pro") ELSE Num(30)],
             [k \in {"plan", "age"} |->
                IF k = "plan" THEN Null ELSE Str("abc")],
             [k \in {"beta"} |-> Bool(TRUE)]}}

Contexts == IdentityContexts \cup EnvironmentContexts \cup AttributeContexts

NoCall == [op |-> "none"]

(***************************************************************************)
(* State machine: config is the engine's snapshot, last the latest call    *)
(* with its completion.                                                    *)
(***************************************************************************)
\* No SDK client and no configuration file: the engine is used directly.
NoClient == [t |-> "none"]

NoFile == [t |-> "none"]

\* new FlagEngine(config)
Init ==
  /\ config \in InitialConfigs
  /\ last = NoCall
  /\ strict = FALSE
  /\ client = NoClient
  /\ file = NoFile

\* engine.evaluate(flagName, context)
Evaluate(flagName, context) ==
  /\ last' = [op |-> "evaluate", flagName |-> flagName, context |-> context,
              completion |->
                engineEvaluateWith(config, strict, flagName, context)]
  /\ UNCHANGED <<config, strict, client, file>>

\* Mutant of UpdateConfig: the new flags are merged into the old snapshot
\* (Object.assign(this.config, config)).
UpdateConfig_merge(c) ==
  /\ config' = [n \in DOMAIN config \cup DOMAIN c |->
                  IF n \in DOMAIN c THEN c[n] ELSE config[n]]
  /\ last' = [op |-> "updateConfig", config |-> c]
  /\ UNCHANGED <<strict, client, file>>

\* engine.updateConfig(c)
UpdateConfig(c) ==
  /\ config' = c
  /\ last' = [op |-> "updateConfig", config |-> c]
  /\ UNCHANGED <<strict, client, file>>

Next ==
  \/ \E flagName \in FlagNames, context \in Contexts :
       Evaluate(flagName, context)
  \/ \E c \in ReloadConfigs : UpdateConfig(c)

Spec == Init /\ [][Next]_vars

(***************************************************************************)
(* The rollout tier next to direct calls of the Hasher: the engine holds a *)
(* flag with a rollout, and callers use Hasher.getBucket and               *)
(* Hasher.isInRollout themselves.                                          *)
(***************************************************************************)
Identifiers == {Str("u1"), Str("a@x"), Str("anonymous")}

Seeds == {Undefined, Str(""), Str("s2")}

Percentages == {0, 1, 50, 99, 100}

InitRollout ==
  /\ config \in {[n \in {"f2"} |-> fc] : fc \in RolloutConfigs}
  /\ last = NoCall
  /\ strict = FALSE
  /\ client = NoClient
  /\ file = NoFile

\* Hasher.getBucket(flagName, identifier, seed)
GetBucket(flagName, identifier, seed) ==
  /\ last' = [op |-> "getBucket", flagName |-> flagName,
              identifier |-> identifier, seed |-> seed,
              result |-> getBucket(flagName, identifier, seed)]
  /\ UNCHANGED <<config, strict, client, file>>

\* Hasher.isInRollout(flagName, identifier, percentage, seed)
IsInRollout(flagName, identifier, percentage, seed) ==
  /\ last' = [op |-> "isInRollout", flagName |-> flagName,
              identifier |-> identifier, percentage |-> percentage,
              seed |-> seed,
              result |-> isInRollout(flagName, identifier, percentage, seed)]
  /\ UNCHANGED <<config, strict, client, file>>

NextRollout ==
  \/ \E flagName \in FlagNames, context \in Contexts :
       Evaluate(flagName, context)
  \/ \E flagName \in FlagNames, identifier \in Identifiers, seed \in Seeds :
       GetBucket(flagName, identifier, seed)
  \/ \E flagName \in FlagNames, identifier \in Identifiers,
        percentage \in Percentages, seed \in Seeds :
       IsInRollout(flagName, identifier, percentage, seed)

SpecRollout == InitRollout /\ [][NextRollout]_vars

(***************************************************************************)
(* What the claims speak of: the latest evaluate call, the flag it found   *)
(* and the tier that is to decide it.                                      *)
(***************************************************************************)
IsEvaluate == last.op = "evaluate"

\* The latest call was an evaluate of a flag the snapshot holds.
Evaluated == IsEvaluate /\ last.flagName \in DOMAIN config

FC == config[last.flagName]

CTX == last.context

Returned == last.completion.t = "return"

RES == last.completion.v

\* The environments map has a key equal to context.environment.
EnvOverrideApplies(fc, context) ==
  /\ fc.environments # Undefined
  /\ context.environment # Undefined
  /\ context.environment.s \in DOMAIN fc.environments.o

RulesOf(fc) == IF fc.targeting = Undefined THEN <<>> ELSE fc.targeting.a

Matches(rule, context) == ruleMatches(rule, context) = Return(TRUE)

Matching(fc, context) ==
  {i \in 1..Len(RulesOf(fc)) : Matches(RulesOf(fc)[i], context)}

\* The 1-based index of the first rule that matches (when one does).
FirstMatch(fc, context) ==
  CHOOSE i \in Matching(fc, context) :
    \A j \in Matching(fc, context) : i <= j

\* The flag is enabled and no environment override applies.
PastGlobalGate(fc, context) ==
  fc.enabled /\ ~EnvOverrideApplies(fc, context)

\* C1 (as stated): whenever the environments map contains a key equal to
\* context.environment, evaluate returns that map's boolean with an
\* "environment override" reason.
C1_OverrideForAnyKey ==
  (Evaluated /\ EnvOverrideApplies(FC, CTX)) =>
    /\ Returned
    /\ RES.enabled = FC.environments.o[CTX.environment.s].b
    /\ RES.reason.text = "Environment override: "
    /\ RES.reason.env = CTX.environment.s

\* C1 (amended): whenever context.environment is a non-empty string and the
\* environments map contains a key equal to it, evaluate returns that map's
\* boolean with an "environment override" reason and no matchedRule or
\* rolloutBucket, whatever enabled, targeting and rollout are.
C1_OverrideForNonEmptyKey ==
  (Evaluated /\ EnvOverrideApplies(FC, CTX) /\ CTX.environment.s # "") =>
    /\ Returned
    /\ RES.enabled = FC.environments.o[CTX.environment.s].b
    /\ RES.reason.text = "Environment override: "
    /\ RES.reason.env = CTX.environment.s
    /\ RES.metadata = NoMetadata

\* A globally disabled flag with a matching enabled:false rule and a rollout
\* is enabled by its environment override.
C1_Witness ==
  /\ Evaluated /\ EnvOverrideApplies(FC, CTX) /\ CTX.environment.s # ""
  /\ ~FC.enabled
  /\ FC.rollout # Undefined
  /\ Matching(FC, CTX) # {}
  /\ RES.enabled
  /\ RES.reason.text = "Environment override: "

\* C2: with no environment override and enabled = false, the result is
\* disabled, "disabled globally", without matchedRule and rolloutBucket, also
\* when an enabled:true rule matches and the rollout is 100%.
C2_GlobalDisable ==
  (Evaluated /\ ~EnvOverrideApplies(FC, CTX) /\ ~FC.enabled) =>
    /\ Returned
    /\ RES.enabled = FALSE
    /\ RES.reason = [text |-> "Flag is disabled globally"]
    /\ RES.metadata = NoMetadata

C2_Witness ==
  /\ Evaluated /\ ~EnvOverrideApplies(FC, CTX) /\ ~FC.enabled
  /\ Matching(FC, CTX) # {}
  /\ RulesOf(FC)[FirstMatch(FC, CTX)].enabled
  /\ FC.rollout # Undefined
  /\ FC.rollout.percentage = 100
  /\ RES.enabled = FALSE

\* C3: first match wins.  For an enabled flag without environment override,
\* the result is the enabled field of the lowest-index matching rule,
\* matchedRule is its (0-based) index, and the result is the one the flag
\* has with every rule after the first match deleted.
C3_FirstMatchWins ==
  (Evaluated /\ PastGlobalGate(FC, CTX) /\ Matching(FC, CTX) # {}) =>
    LET k == FirstMatch(FC, CTX)
        cut == [FC EXCEPT !.targeting = Arr(SubSeq(RulesOf(FC), 1, k))]
    IN /\ Returned
       /\ RES.enabled = RulesOf(FC)[k].enabled
       /\ RES.metadata.matchedRule = Num(k - 1)
       /\ last.completion = evaluate(last.flagName, cut, CTX)

\* Two rules match and disagree; the first decides.
C3_Witness ==
  /\ Evaluated /\ PastGlobalGate(FC, CTX)
  /\ \E i, j \in Matching(FC, CTX) :
       /\ i < j
       /\ i = FirstMatch(FC, CTX)
       /\ RulesOf(FC)[i].enabled # RulesOf(FC)[j].enabled
       /\ RES.enabled = RulesOf(FC)[i].enabled

\* C4 (as stated): whenever some targeting rule matches, the result is that
\* rule's enabled value and rolloutBucket is absent.
C4_TargetingAlwaysDecides ==
  (Evaluated /\ Matching(FC, CTX) # {}) =>
    /\ Returned
    /\ RES.enabled = RulesOf(FC)[FirstMatch(FC, CTX)].enabled
    /\ RES.metadata.rolloutBucket = Undefined

\* C4 (amended): whenever the flag is enabled, no environment override
\* applies and some targeting rule matches, the result is that rule's
\* enabled value whatever the rollout percentage is, and rolloutBucket is
\* absent.
C4_TargetingBeatsRollout ==
  (Evaluated /\ PastGlobalGate(FC, CTX) /\ Matching(FC, CTX) # {}
     /\ FC.rollout # Undefined) =>
    /\ Returned
    /\ RES.enabled = RulesOf(FC)[FirstMatch(FC, CTX)].enabled
    /\ RES.metadata.rolloutBucket = Undefined

\* A matching rule decides against the rollout: disabled at 100% or enabled
\* at 0%.
C4_Witness ==
  /\ Evaluated /\ PastGlobalGate(FC, CTX) /\ Matching(FC, CTX) # {}
  /\ FC.rollout # Undefined
  /\ \/ FC.rollout.percentage = 100 /\ ~RES.enabled
     \/ FC.rollout.percentage = 0 /\ RES.enabled

\* The rollout tier is to decide: flag enabled, no environment override, no
\* rule matches, rollout present.
AtRolloutTier(fc, context) ==
  /\ PastGlobalGate(fc, context)
  /\ Matching(fc, context) = {}
  /\ fc.rollout # Undefined

\* C5 (as stated): in the rollout tier the identifier is userId if present,
\* else email, else "anonymous"; the seed is rollout.seed if present, else
\* the context's test seed, else the default; enabled is bucket < percentage
\* and rolloutBucket is the bucket.
C5_RolloutInputsIfPresent ==
  (Evaluated /\ AtRolloutTier(FC, CTX)) =>
    LET identifier == IF CTX.userId # Undefined THEN CTX.userId
                      ELSE IF CTX.email # Undefined THEN CTX.email
                      ELSE Str("anonymous")
        seed == IF FC.rollout.seed # Undefined THEN FC.rollout.seed
                ELSE IF CTX.hashSeed # Undefined THEN CTX.hashSeed
                ELSE Str(DEFAULT_SEED)
        bucket == getBucket(last.flagName, identifier, seed)
    IN /\ Returned
       /\ RES.enabled = (bucket < FC.rollout.percentage)
       /\ RES.metadata.rolloutBucket = Num(bucket)

NonEmpty(v) == v # Undefined /\ v.s # ""

\* C5 (amended): in the rollout tier the identifier is userId if non-empty,
\* else email if non-empty, else "anonymous"; the seed is rollout.seed if
\* non-empty, else the context's test seed if non-empty, else the default;
\* enabled is bucket < percentage and rolloutBucket is the bucket.
C5_RolloutInputsIfNonEmpty ==
  (Evaluated /\ AtRolloutTier(FC, CTX)) =>
    LET identifier == IF NonEmpty(CTX.userId) THEN CTX.userId
                      ELSE IF NonEmpty(CTX.email) THEN CTX.email
                      ELSE Str("anonymous")
        seed == IF NonEmpty(FC.rollout.seed) THEN FC.rollout.seed
                ELSE IF NonEmpty(CTX.hashSeed) THEN CTX.hashSeed
                ELSE Str(DEFAULT_SEED)
        bucket == getBucket(last.flagName, identifier, seed)
    IN /\ Returned
       /\ RES.enabled = (bucket < FC.rollout.percentage)
       /\ RES.metadata.rolloutBucket = Num(bucket)
       /\ RES.metadata.matchedRule = Undefined

\* The rollout tier decided with an empty userId beside an e-mail address
\* and an empty rollout.seed beside a test seed.
C5_Witness ==
  /\ Evaluated /\ AtRolloutTier(FC, CTX)
  /\ CTX.userId = Str("")
  /\ CTX.email = Str("a@x")
  /\ FC.rollout.seed = Str("")
  /\ CTX.hashSeed = Str("s1")
  /\ RES.metadata.rolloutBucket =
       Num(getBucket(last.flagName, Str("a@x"), Str("s1")))

\* C6: an enabled flag with no environment override, no matching rule and
\* no rollout is enabled, "enabled for all users", without matchedRule and
\* rolloutBucket.
C6_FallthroughDefault ==
  (Evaluated /\ PastGlobalGate(FC, CTX) /\ Matching(FC, CTX) = {}
     /\ FC.rollout = Undefined) =>
    /\ Returned
    /\ RES.enabled = TRUE
    /\ RES.reason = [text |-> "Flag is enabled for all users"]
    /\ RES.metadata = NoMetadata

\* Rules exist, none matches, and the default decided.
C6_Witness ==
  /\ Evaluated /\ PastGlobalGate(FC, CTX) /\ Matching(FC, CTX) = {}
  /\ FC.rollout = Undefined
  /\ Len(RulesOf(FC)) > 0
  /\ RES.enabled
  /\ RES.reason.text = "Flag is enabled for all users"

\* The attribute is absent from the context: a well-known field or a custom
\* attribute that is undefined or null.
AttributeAbsent(attribute, context) ==
  IF attribute = "userId" THEN context.userId \in {Undefined, Null}
  ELSE IF attribute = "email" THEN context.email \in {Undefined, Null}
  ELSE IF attribute = "environment"
    THEN context.environment \in {Undefined, Null}
  ELSE \/ context.customAttributes \in {Undefined, Null}
       \/ attribute \notin DOMAIN context.customAttributes.o
       \/ context.customAttributes.o[attribute] \in {Undefined, Null}

\* The result of the latest evaluate agrees, in enabled, reason text and
\* rolloutBucket, with the evaluation of the same flag without the rules
\* that satisfy Drop.
SameWithout(Drop(_)) ==
  LET kept == SelectSeq(RulesOf(FC), LAMBDA r : ~Drop(r))
      other == evaluate(last.flagName, [FC EXCEPT !.targeting = Arr(kept)], CTX)
  IN /\ other.t = "return"
     /\ RES.enabled = other.v.enabled
     /\ RES.reason.text = other.v.reason.text
     /\ RES.metadata.rolloutBucket = other.v.metadata.rolloutBucket

Throwing(rule, context) ==
  /\ ~AttributeAbsent(rule.attribute, context)
  /\ operatorSwitch(rule, getAttributeValue(rule.attribute, context)).t
       = "throw"

\* C8: evaluate always completes with a result and never throws; a rule
\* whose operator evaluation throws does not match, and the remaining rules
\* and tiers decide as if the rule were not there.
C8_NeverThrows ==
  IsEvaluate =>
    /\ Returned
    /\ Evaluated =>
         LET Throws(r) == Throwing(r, CTX) IN
         /\ \A i \in 1..Len(RulesOf(FC)) :
              Throws(RulesOf(FC)[i]) => RES.metadata.matchedRule # Num(i - 1)
         /\ SameWithout(Throws)

\* A rule threw and the rollout tier decided.
C8_Witness ==
  /\ Evaluated /\ PastGlobalGate(FC, CTX)
  /\ \E i \in 1..Len(RulesOf(FC)) : Throwing(RulesOf(FC)[i], CTX)
  /\ Returned
  /\ RES.metadata.rolloutBucket # Undefined

IsRolloutCall == last.op = "isInRollout"

\* C9: rollout monotonicity.  An identifier that Hasher.isInRollout, or the
\* rollout tier of evaluate, enables at percentage P is enabled at every
\* percentage P' with P < P' <= 100, for the same flag, identifier and seed.
C9_RolloutMonotone ==
  /\ (IsRolloutCall /\ last.result) =>
       \A p \in (last.percentage + 1)..100 :
         isInRollout(last.flagName, last.identifier, p, last.seed)
  /\ (Evaluated /\ AtRolloutTier(FC, CTX) /\ RES.enabled) =>
       \A p \in (FC.rollout.percentage + 1)..100 :
         LET more == [FC EXCEPT !.rollout.percentage = p] IN
         evaluate(last.flagName, more, CTX).v.enabled

\* isInRollout enabled an identifier at 50% that it does not enable at 1%.
C9_Witness ==
  /\ IsRolloutCall
  /\ last.percentage = 50
  /\ last.result
  /\ ~isInRollout(last.flagName, last.identifier, 1, last.seed)

\* C10: rollout boundaries.  isInRollout is false at percentage 0 and true
\* at 100, and a flag in the rollout tier is disabled at 0 and enabled at
\* 100, for every flag name, identifier, seed and context.
C10_RolloutBoundaries ==
  /\ IsRolloutCall =>
       /\ last.percentage = 0 => ~last.result
       /\ last.percentage = 100 => last.result
  /\ (Evaluated /\ AtRolloutTier(FC, CTX)) =>
       /\ Returned
       /\ FC.rollout.percentage = 0 => ~RES.enabled
       /\ FC.rollout.percentage = 100 => RES.enabled

\* The rollout tier enabled, at 100%, an identifier whose bucket is 99% out.
C10_Witness ==
  /\ Evaluated /\ AtRolloutTier(FC, CTX)
  /\ FC.rollout.percentage = 100
  /\ RES.enabled
  /\ RES.metadata.rolloutBucket # Undefined
  /\ RES.metadata.rolloutBucket.n >= 50

\* The unsigned 32-bit integer getBucket reduces, as its two 16-bit halves.
HashNumber(flagName, identifier, seed) ==
  parseIntHex8(sha256Hex8(StringOf(Or(seed, Str(DEFAULT_SEED))) \o <<":">>
                           \o Chars(flagName) \o <<":">>
                           \o StringOf(identifier)))

IsBucketCall == last.op = "getBucket"

\* C11: bucket range.  Hasher.getBucket returns an integer in 0..99 for every
\* flag name, identifier and seed: the first 8 hex characters of the digest
\* are an unsigned 32-bit integer (both halves in 0..65535, also with the
\* top bit set) and the bucket is its remainder modulo 100; the bucket the
\* rollout tier reports in metadata.rolloutBucket is in 0..99 as well.
C11_BucketRange ==
  /\ IsBucketCall =>
       LET hn == HashNumber(last.flagName, last.identifier, last.seed) IN
       /\ hn.hi \in 0..65535 /\ hn.lo \in 0..65535
       /\ last.result \in 0..99
       /\ \E q \in 0..690 : hn.hi * 36 + hn.lo = (hn.hi \div 100) * 3600
                                                    + q * 100 + last.result
  /\ (Evaluated /\ Returned /\ RES.metadata.rolloutBucket # Undefined) =>
       RES.metadata.rolloutBucket.n \in 0..99

\* getBucket reduced a digest whose top bit is set (2^31 or more).
C11_Witness ==
  /\ IsBucketCall
  /\ HashNumber(last.flagName, last.identifier, last.seed).hi >= 32768
  /\ last.result \in 0..99

(***************************************************************************)
(* The engine with its strict option and its read accessors, and a caller  *)
(* that keeps what an accessor returned and writes to it.  Every engine    *)
(* starts with the flag f1; f3 is in no snapshot.                          *)
(***************************************************************************)
EngineInitialConfigs ==
  {[n \in {"f1"} |->
      FlagConfig(TRUE, Obj([e \in {"prod"} |-> Bool(TRUE)]),
                 Arr(<<Rule("userId", "equals", Str("u1"), Undefined, FALSE,
                            Undefined)>>),
                 Rollout(50, Undefined))],
   [n \in FlagNames |->
      FlagConfig(n = "f1", Obj([e \in {"dev"} |-> Bool(FALSE)]),
                 Arr(<<OpRule("environment", "in", Str("prod"), FALSE)>>),
                 Rollout(100, Str("s1")))]}

EngineFlagNames == FlagNames \cup {"f3"}

EngineContexts ==
  {Context(u, Undefined, env, Undefined, Undefined) :
     u \in {Undefined, Str("u1")}, env \in {Undefined, Str("prod")}}

\* new FlagEngine(config, { strict })
InitEngine ==
  /\ config \in EngineInitialConfigs
  /\ last = NoCall
  /\ strict \in BOOLEAN
  /\ client = NoClient
  /\ file = NoFile

\* engine.getAllFlags()
GetAllFlags ==
  /\ last' = [op |-> "getAllFlags", result |-> getAllFlags(config)]
  /\ UNCHANGED <<config, strict, client, file>>

\* engine.getFlagConfig(flagName)
GetFlagConfig(flagName) ==
  /\ last' = [op |-> "getFlagConfig", flagName |-> flagName,
              result |-> getFlagConfig(config, flagName)]
  /\ UNCHANGED <<config, strict, client, file>>

\* engine.getConfig()
GetConfig ==
  /\ last' = [op |-> "getConfig", result |-> getConfig(config)]
  /\ UNCHANGED <<config, strict, client, file>>

\* What the caller writes to a returned value: a field of the flag object
\* of flagName reached through it (flag.enabled = b, flag.rollout =
\* { percentage: 0 }, flag.targeting.length = 0), or an own property of the
\* returned container itself (config.f1 = ..., names.push(...)).
Mutations ==
  {[kind |-> "enabled", flagName |-> f, enabled |-> b] :
     f \in FlagNames, b \in BOOLEAN}
  \cup {[kind |-> k, flagName |-> f] :
          k \in {"rollout", "targeting"}, f \in FlagNames}
  \cup {[kind |-> "container"]}

\* The snapshot after the caller has performed m on the value held: a write
\* to a flag object the snapshot shares is a write to the snapshot; a write
\* to the container changes the caller's copy (or nothing, when frozen).
mutate(cfg, held, m) ==
  IF m.kind = "container" THEN cfg
  ELSE IF m.flagName \notin held.shares THEN cfg
  ELSE CASE m.kind = "enabled" ->
              [cfg EXCEPT ![m.flagName].enabled = m.enabled]
         [] m.kind = "rollout" ->
              [cfg EXCEPT ![m.flagName].rollout = Rollout(0, Undefined)]
         [] m.kind = "targeting" ->
              IF cfg[m.flagName].targeting = Undefined THEN cfg
              ELSE [cfg EXCEPT ![m.flagName].targeting = Arr(<<>>)]

IsAccessor == last.op \in {"getAllFlags", "getFlagConfig", "getConfig"}

\* The caller writes to the value the latest accessor call returned.
Mutate(m) ==
  /\ IsAccessor
  /\ m.kind # "container" => m.flagName \in last.result.shares
  /\ config' = mutate(config, last.result, m)
  /\ last' = [op |-> "mutate", mutation |-> m, before |-> config]
  /\ UNCHANGED <<strict, client, file>>

NextEngine ==
  \/ \E flagName \in EngineFlagNames, context \in EngineContexts :
       Evaluate(flagName, context)
  \/ \E c \in ReloadConfigs : UpdateConfig(c)
  \/ GetAllFlags
  \/ \E flagName \in EngineFlagNames : GetFlagConfig(flagName)
  \/ GetConfig
  \/ \E m \in Mutations : Mutate(m)

SpecEngine == InitEngine /\ [][NextEngine]_vars

\* C12: atomic wholesale replacement.  updateConfig(c) leaves the engine
\* holding exactly c (flags only the old snapshot had are gone); every
\* evaluate computes its whole result from the one snapshot the engine holds
\* at the call, and getAllFlags, getFlagConfig and getConfig return that
\* snapshot's content.
C12_AtomicReplacement ==
  /\ last.op = "updateConfig" =>
       /\ config = last.config
       /\ DOMAIN config = DOMAIN last.config
  /\ IsEvaluate =>
       last.completion =
         IF last.flagName \in DOMAIN config
           THEN evaluate(last.flagName, config[last.flagName], last.context)
         ELSE IF strict THEN Throw("FlagNotFoundError")
         ELSE Return(createResult(last.flagName, FALSE,
                                  [text |-> "Flag not found"], NoMetadata))
  /\ last.op = "getAllFlags" => last.result.value = DOMAIN config
  /\ last.op = "getFlagConfig" =>
       last.result.value =
         IF last.flagName \in DOMAIN config
           THEN Obj(config[last.flagName]) ELSE Undefined
  /\ last.op = "getConfig" => last.result.value = config

\* After an updateConfig that dropped f1 (every engine starts with it),
\* evaluate("f1") finds no flag and getFlagConfig has nothing to return.
C12_Witness ==
  /\ DOMAIN config = {"f2"}
  /\ ~strict
  /\ IsEvaluate
  /\ last.flagName = "f1"
  /\ last.completion.v.reason.text = "Flag not found"

\* The latest call was an evaluate of a flag name the snapshot does not hold.
EvaluatedMissing == IsEvaluate /\ last.flagName \notin DOMAIN config

MAX_FLAG_NAME_LENGTH == 100

MAX_DESCRIPTION_LENGTH == 500

\* An object with its own keys in insertion order.
Doc(keys, o) == [t |-> "object", o |-> o, keys |-> keys]

\* typeof v
TypeOf(v) ==
  CASE v.t \in {"object", "array", "null"} -> "object"
    [] v.t = "NaN" -> "number"
    [] OTHER -> v.t

\* Array.isArray(v)
IsArray(v) == v.t = "array"

\* v[key] of any value that passed a typeof "object" test and is not null.
Prop(v, key) == IF v.t = "object" THEN Get(v, key) ELSE Undefined

\* A canonical array index: a decimal numeral without a leading zero.
IsArrayIndex(cs) ==
  /\ Len(cs) > 0
  /\ \A i \in 1..Len(cs) : IsDigit(cs[i])
  /\ Len(cs) > 1 => cs[1] # "0"

\* The keys of the sequence ks that are not array indices, in their order.
RECURSIVE OtherKeys(_)
OtherKeys(ks) ==
  IF ks = <<>> THEN <<>>
  ELSE IF IsArrayIndex(Chars(Head(ks))) THEN OtherKeys(Tail(ks))
  ELSE <<Head(ks)>> \o OtherKeys(Tail(ks))

\* The array-index keys in ascending numeric order.
RECURSIVE AscendingIndices(_)
AscendingIndices(S) ==
  IF S = {} THEN <<>>
  ELSE LET least == CHOOSE k \in S :
                      \A j \in S : DigitsToNat(Chars(k)) <= DigitsToNat(Chars(j))
       IN <<least>> \o AscendingIndices(S \ {least})

\* Object.keys(obj): array-index keys ascending, then the other keys in
\* insertion order.
ObjectKeys(obj) ==
  AscendingIndices({k \in {obj.keys[i] : i \in 1..Len(obj.keys)} :
                      IsArrayIndex(Chars(k))})
    \o OtherKeys(obj.keys)

Field(flag, part, index, sub) ==
  [flag |-> flag, part |-> part, index |-> index, sub |-> sub]

ValidationError(message, field, value) ==
  [t |-> "throw", e |-> "ValidationError", message |-> message,
   field |-> field, value |-> value]

\* Normal completion of a void method.
Done == Return(Undefined)

\* FLAG_NAME_REGEX.test(name): /^[a-z0-9_-]+$/
FLAG_NAME_REGEX(cs) ==
  /\ Len(cs) > 0
  /\ \A i \in 1..Len(cs) :
       \/ \E k \in 1..26 : Lowercase[k] = cs[i]
       \/ IsDigit(cs[i])
       \/ cs[i] \in {"_", "-"}

\* ConfigValidator.validateFlagName(name)
validateFlagName(name) ==
  IF Len(Chars(name)) = 0
    THEN ValidationError("Flag name must be a non-empty string",
                         Field("", "flagName", -1, ""), Str(name))
  ELSE IF ~FLAG_NAME_REGEX(Chars(name))
    THEN ValidationError("must contain only lowercase letters, numbers, underscores, and hyphens",
                         Field("", "flagName", -1, ""), Str(name))
  ELSE IF Len(Chars(name)) > MAX_FLAG_NAME_LENGTH
    THEN ValidationError("exceeds maximum length",
                         Field("", "flagName", -1, ""), Str(name))
  ELSE Done

\* ConfigValidator.validateDescription(flagName, description)
validateDescription(flagName, description) ==
  IF TypeOf(description) # "string"
    THEN ValidationError("description must be a string",
                         Field(flagName, "description", -1, ""), description)
  ELSE IF Len(Chars(description.s)) > MAX_DESCRIPTION_LENGTH
    THEN ValidationError("description exceeds maximum length",
                         Field(flagName, "description", -1, ""), description)
  ELSE Done

\* ConfigValidator.validateRollout(flagName, rollout)
validateRollout(flagName, rollout) ==
  IF TypeOf(rollout) # "object" \/ rollout = Null
    THEN ValidationError("rollout must be an object",
                         Field(flagName, "rollout", -1, ""), rollout)
  ELSE
    LET percentage == Prop(rollout, "percentage")
        seed == Prop(rollout, "seed")
    IN IF TypeOf(percentage) # "number"
         THEN ValidationError("rollout.percentage must be a number",
                              Field(flagName, "rollout", -1, "percentage"),
                              percentage)
       ELSE IF percentage = NaN
         THEN ValidationError("rollout.percentage must be finite",
                              Field(flagName, "rollout", -1, "percentage"),
                              percentage)
       ELSE IF percentage.n < 0 \/ percentage.n > 100
         THEN ValidationError("rollout.percentage must be between 0 and 100",
                              Field(flagName, "rollout", -1, "percentage"),
                              percentage)
       ELSE IF seed # Undefined /\ TypeOf(seed) # "string"
         THEN ValidationError("rollout.seed must be a string",
                              Field(flagName, "rollout", -1, "seed"), seed)
       ELSE Done

\* typeof v is "string", "number" or "boolean"
IsPrimitive(v) == TypeOf(v) \in {"string", "number", "boolean"}

\* Mutant of firstNonPrimitive: the elements of values are not examined.
firstNonPrimitive_none(values, i) == 0

\* The first element of values, from position i, that is not a primitive
\* (0 when there is none).
RECURSIVE firstNonPrimitive(_, _)
firstNonPrimitive(values, i) ==
  IF i > Len(values) THEN 0
  ELSE IF ~IsPrimitive(values[i]) THEN i
  ELSE firstNonPrimitive(values, i + 1)

\* ConfigValidator.validateTargetingRule(flagName, rule, index)
validateTargetingRule(flagName, rule, index) ==
  IF TypeOf(rule) # "object" \/ rule = Null
    THEN ValidationError("targeting rule must be an object",
                         Field(flagName, "targeting", index, ""), rule)
  ELSE
    LET attribute == Prop(rule, "attribute")
        operator == Prop(rule, "operator")
        values == Prop(rule, "values")
        value == Prop(rule, "value")
        enabled == Prop(rule, "enabled")
        description == Prop(rule, "description")
        ruleKey(sub) == Field(flagName, "targeting", index, sub)
        afterOperand ==
          IF TypeOf(enabled) # "boolean"
            THEN ValidationError("targeting rule 'enabled' must be a boolean",
                                 ruleKey("enabled"), enabled)
          ELSE IF /\ operator.s = "matches_regex"
                  /\ RegExpThrows(StringOf(value))
            THEN ValidationError("targeting rule has invalid regex pattern",
                                 ruleKey("value"), value)
          ELSE IF description # Undefined /\ TypeOf(description) # "string"
            THEN ValidationError("targeting rule description must be a string",
                                 ruleKey("description"), description)
          ELSE Done
    IN IF TypeOf(attribute) # "string" \/ Len(Chars(attribute.s)) = 0
         THEN ValidationError("targeting rule attribute must be a non-empty string",
                              ruleKey("attribute"), attribute)
       ELSE IF ~(TypeOf(operator) = "string" /\ operator.s \in Operators)
         THEN ValidationError("targeting rule has invalid operator",
                              ruleKey("operator"), operator)
       ELSE IF operator.s \in {"in", "not_in"}
         THEN IF ~IsArray(values) \/ Len(values.a) = 0
                THEN ValidationError("targeting rule requires non-empty 'values' array",
                                     ruleKey("values"), values)
              ELSE IF firstNonPrimitive(values.a, 1) # 0
                THEN ValidationError("targeting rule values must be string, number, or boolean",
                                     ruleKey("values"),
                                     values.a[firstNonPrimitive(values.a, 1)])
              ELSE afterOperand
       ELSE IF value = Undefined
         THEN ValidationError("targeting rule requires 'value' field",
                              ruleKey("value"), value)
       ELSE IF ~IsPrimitive(value)
         THEN ValidationError("targeting rule value must be string, number, or boolean",
                              ruleKey("value"), value)
       ELSE afterOperand

\* targeting.forEach((rule, index) => validateTargetingRule(...)), from the
\* 1-based position i.
RECURSIVE validateRulesFrom(_, _, _)
validateRulesFrom(flagName, rules, i) ==
  IF i > Len(rules) THEN Done
  ELSE LET r == validateTargetingRule(flagName, rules[i], i - 1) IN
       IF r.t = "throw" THEN r ELSE validateRulesFrom(flagName, rules, i + 1)

\* ConfigValidator.validateTargeting(flagName, targeting)
validateTargeting(flagName, targeting) ==
  IF ~IsArray(targeting)
    THEN ValidationError("targeting must be an array",
                         Field(flagName, "targeting", -1, ""), targeting)
  ELSE validateRulesFrom(flagName, targeting.a, 1)

\* for (const [env, enabled] of Object.entries(envs)), from position i of
\* the keys.
RECURSIVE validateEntriesFrom(_, _, _, _)
validateEntriesFrom(flagName, envs, keys, i) ==
  IF i > Len(keys) THEN Done
  ELSE IF TypeOf(Get(envs, keys[i])) # "boolean"
    THEN ValidationError("environment value must be a boolean",
                         Field(flagName, "environments", -1, keys[i]),
                         Get(envs, keys[i]))
  ELSE validateEntriesFrom(flagName, envs, keys, i + 1)

\* ConfigValidator.validateEnvironments(flagName, environments)
validateEnvironments(flagName, environments) ==
  IF \/ TypeOf(environments) # "object"
     \/ environments = Null
     \/ IsArray(environments)
    THEN ValidationError("environments must be an object",
                         Field(flagName, "environments", -1, ""), environments)
  ELSE validateEntriesFrom(flagName, environments, ObjectKeys(environments), 1)

\* ConfigValidator.validateMetadata(flagName, metadata)
validateMetadata(flagName, metadata) ==
  IF \/ TypeOf(metadata) # "object"
     \/ metadata = Null
     \/ IsArray(metadata)
    THEN ValidationError("metadata must be an object",
                         Field(flagName, "metadata", -1, ""), metadata)
  ELSE Done

\* Mutant of validateFlagConfig: targeting is validated before rollout.
validateFlagConfig_targetingFirst(flagName, flagConfig) ==
  IF TypeOf(flagConfig) # "object" \/ flagConfig = Null
    THEN ValidationError("config must be an object",
                         Field(flagName, "", -1, ""), flagConfig)
  ELSE
    LET enabled == Prop(flagConfig, "enabled")
        description == Prop(flagConfig, "description")
        rollout == Prop(flagConfig, "rollout")
        targeting == Prop(flagConfig, "targeting")
        environments == Prop(flagConfig, "environments")
        metadata == Prop(flagConfig, "metadata")
        r1 == IF description # Undefined
                THEN validateDescription(flagName, description) ELSE Done
        r2 == IF targeting # Undefined
                THEN validateTargeting(flagName, targeting) ELSE Done
        r3 == IF rollout # Undefined
                THEN validateRollout(flagName, rollout) ELSE Done
        r4 == IF environments # Undefined
                THEN validateEnvironments(flagName, environments) ELSE Done
        r5 == IF metadata # Undefined
                THEN validateMetadata(flagName, metadata) ELSE Done
    IN IF TypeOf(enabled) # "boolean"
         THEN ValidationError("'enabled' must be a boolean",
                              Field(flagName, "enabled", -1, ""), enabled)
       ELSE IF r1.t = "throw" THEN r1
       ELSE IF r2.t = "throw" THEN r2
       ELSE IF r3.t = "throw" THEN r3
       ELSE IF r4.t = "throw" THEN r4
       ELSE r5

\* ConfigValidator.validateFlagConfig(flagName, config)
validateFlagConfig(flagName, flagConfig) ==
  IF TypeOf(flagConfig) # "object" \/ flagConfig = Null
    THEN ValidationError("config must be an object",
                         Field(flagName, "", -1, ""), flagConfig)
  ELSE
    LET enabled == Prop(flagConfig, "enabled")
        description == Prop(flagConfig, "description")
        rollout == Prop(flagConfig, "rollout")
        targeting == Prop(flagConfig, "targeting")
        environments == Prop(flagConfig, "environments")
        metadata == Prop(flagConfig, "metadata")
        r1 == IF description # Undefined
                THEN validateDescription(flagName, description) ELSE Done
        r2 == IF rollout # Undefined
                THEN validateRollout(flagName, rollout) ELSE Done
        r3 == IF targeting # Undefined
                THEN validateTargeting(flagName, targeting) ELSE Done
        r4 == IF environments # Undefined
                THEN validateEnvironments(flagName, environments) ELSE Done
        r5 == IF metadata # Undefined
                THEN validateMetadata(flagName, metadata) ELSE Done
    IN IF TypeOf(enabled) # "boolean"
         THEN ValidationError("'enabled' must be a boolean",
                              Field(flagName, "enabled", -1, ""), enabled)
       ELSE IF r1.t = "throw" THEN r1
       ELSE IF r2.t = "throw" THEN r2
       ELSE IF r3.t = "throw" THEN r3
       ELSE IF r4.t = "throw" THEN r4
       ELSE r5

\* for (const flagName of flagNames) { validateFlagName; validateFlagConfig },
\* from position i of flagNames.
RECURSIVE validateFlagsFrom(_, _, _)
validateFlagsFrom(flags, flagNames, i) ==
  IF i > Len(flagNames) THEN Done
  ELSE LET n == validateFlagName(flagNames[i])
           c == validateFlagConfig(flagNames[i], Get(flags, flagNames[i]))
       IN IF n.t = "throw" THEN n
          ELSE IF c.t = "throw" THEN c
          ELSE validateFlagsFrom(flags, flagNames, i + 1)

\* ConfigValidator.validate(config)
validate(parsed) ==
  IF TypeOf(parsed) # "object" \/ parsed = Null
    THEN ValidationError("Config must be an object", Undefined, Undefined)
  ELSE IF IsArray(parsed)
    THEN ValidationError("Config must be an object, not an array",
                         Undefined, Undefined)
  ELSE validateFlagsFrom(parsed, ObjectKeys(parsed), 1)

\* `parsed as FlagsConfig`: the validated document seen as the FlagsConfig
\* the evaluator reads (the fields it never reads, description and metadata
\* of a flag, are left out).
AsRule(r) ==
  Rule(Prop(r, "attribute").s, Prop(r, "operator").s, Prop(r, "value"),
       Prop(r, "values"), Prop(r, "enabled").b, Prop(r, "description"))

AsFlagConfig(f) ==
  LET environments == Prop(f, "environments")
      targeting == Prop(f, "targeting")
      rollout == Prop(f, "rollout")
  IN FlagConfig(Prop(f, "enabled").b,
                IF environments = Undefined THEN Undefined
                ELSE Obj(environments.o),
                IF targeting = Undefined THEN Undefined
                ELSE Arr([i \in 1..Len(targeting.a) |-> AsRule(targeting.a[i])]),
                IF rollout = Undefined THEN Undefined
                ELSE Rollout(Prop(rollout, "percentage").n,
                             Prop(rollout, "seed")))

AsFlagsConfig(parsed) ==
  [n \in {parsed.keys[i] : i \in 1..Len(parsed.keys)} |->
     AsFlagConfig(parsed.o[n])]

\* The keys of an object whose insertion order the snapshot does not keep,
\* in some order.
KeysOf(S) ==
  CHOOSE ks \in [1..Cardinality(S) -> S] : {ks[i] : i \in 1..Len(ks)} = S

\* A FlagsConfig object as the value ConfigValidator.validate is given.
RuleDocument(r) ==
  Obj([attribute |-> Str(r.attribute), operator |-> Str(r.operator),
       value |-> r.value, values |-> r.values, enabled |-> Bool(r.enabled),
       description |-> r.description])

FlagDocument(fc) ==
  Obj([enabled |-> Bool(fc.enabled),
       environments |->
         IF fc.environments = Undefined THEN Undefined
         ELSE Doc(KeysOf(DOMAIN fc.environments.o), fc.environments.o),
       targeting |->
         IF fc.targeting = Undefined THEN Undefined
         ELSE Arr([i \in 1..Len(fc.targeting.a) |->
                     RuleDocument(fc.targeting.a[i])]),
       rollout |->
         IF fc.rollout = Undefined THEN Undefined
         ELSE Obj([percentage |-> Num(fc.rollout.percentage),
                   seed |-> fc.rollout.seed])])

DocumentOf(cfg) ==
  Doc(KeysOf(DOMAIN cfg), [n \in DOMAIN cfg |-> FlagDocument(cfg[n])])

ConfigParseError(message) ==
  [t |-> "throw", e |-> "ConfigParseError", message |-> message]

\* The file at configPath: missing, text that is not YAML, or YAML text
\* with the value yaml.parse gives for it.
MissingFile == [t |-> "missing"]

UnparsableFile == [t |-> "unparsable"]

\* A file readFileSync fails on with an error other than ENOENT.
UnreadableFile == [t |-> "unreadable"]

YamlFile(parsed) == [t |-> "yaml", parsed |-> parsed]

\* Mutant of parseYAMLFrom: the catch wraps every error, a ValidationError
\* included, into a ConfigParseError.
parseYAMLFrom_wrapAll(parsed, validated) ==
  IF parsed = Null \/ parsed = Undefined THEN Return(Obj(<<>>))
  ELSE IF TypeOf(parsed) # "object" \/ validated.t = "throw"
    THEN ConfigParseError("Failed to parse YAML")
  ELSE Return(Obj(AsFlagsConfig(parsed)))

\* ConfigParser.parseYAML from the value yaml.parse returned, validated
\* being the completion of ConfigValidator.validate(parsed).
parseYAMLFrom(parsed, validated) ==
  IF parsed = Null \/ parsed = Undefined THEN Return(Obj(<<>>))
  ELSE IF TypeOf(parsed) # "object"
    THEN ValidationError("Config must be a YAML object", Undefined, Undefined)
  ELSE IF validated.t = "throw" THEN validated
  ELSE Return(Obj(AsFlagsConfig(parsed)))

\* ConfigParser.parseYAML(content)
parseYAML(content) ==
  IF content.t = "unparsable" THEN ConfigParseError("Failed to parse YAML")
  ELSE parseYAMLFrom(content.parsed, validate(content.parsed))

\* ConfigParser.parseFile(filePath)
parseFile(f) ==
  IF f.t = "missing" THEN ConfigParseError("Config file not found")
  ELSE IF f.t = "unreadable"
    THEN ConfigParseError("Failed to read config file")
  ELSE parseYAML(f)

(***************************************************************************)
(* Documents given to the validator and the parser                         *)
(***************************************************************************)
RawFlag(enabled, description, rollout, targeting, environments, metadata) ==
  Obj([enabled |-> enabled, description |-> description, rollout |-> rollout,
       targeting |-> targeting, environments |-> environments,
       metadata |-> metadata])

RawRule(attribute, operator, value, values, enabled, description) ==
  Obj([attribute |-> attribute, operator |-> operator, value |-> value,
       values |-> values, enabled |-> enabled, description |-> description])

GoodRule ==
  RawRule(Str("plan"), Str("equals"), Str("pro"), Undefined, Bool(TRUE),
          Undefined)

GoodEnvironments == Doc(<<"prod">>, [e \in {"prod"} |-> Bool(TRUE)])

MinimalFlag ==
  RawFlag(Bool(TRUE), Undefined, Undefined, Undefined, Undefined, Undefined)

DisabledFlag ==
  RawFlag(Bool(FALSE), Undefined, Undefined, Undefined, Undefined, Undefined)

BadEnabledFlag ==
  RawFlag(Str("true"), Undefined, Undefined, Undefined, Undefined, Undefined)

\* Every field of the body valid or invalid, in every combination.
FieldFlags ==
  {RawFlag(en, de, ro, tg, envs, me) :
     en \in {Bool(TRUE), Str("true")},
     de \in {Str("abc"), Num(30)},
     ro \in {Obj([percentage |-> Num(50)]), Obj([percentage |-> Num(101)])},
     tg \in {Arr(<<GoodRule>>), Str("abc")},
     envs \in {GoodEnvironments, Arr(<<>>)},
     me \in {Obj([owner |-> Str("abc")]), Null}}

RawRollouts ==
  {Num(30), Null, Arr(<<>>), Obj([percentage |-> Str("30")]),
   Obj([percentage |-> NaN]), Obj([percentage |-> Num(0 - 1)]),
   Obj([percentage |-> Num(101)]), Obj([percentage |-> Num(0)]),
   Obj([percentage |-> Num(100)]),
   Obj([percentage |-> Num(50), seed |-> Num(18)]),
   Obj([percentage |-> Num(50), seed |-> Str("s1")])}

RawRules ==
  {GoodRule, Null, Str("abc"),
   RawRule(Undefined, Str("equals"), Str("pro"), Undefined, Bool(TRUE), Undefined),
   RawRule(Str(""), Str("equals"), Str("pro"), Undefined, Bool(TRUE), Undefined),
   RawRule(Str("plan"), Str("abc"), Str("pro"), Undefined, Bool(TRUE), Undefined),
   RawRule(Str("plan"), Undefined, Str("pro"), Undefined, Bool(TRUE), Undefined),
   RawRule(Str("plan"), Str("in"), Str("pro"), Undefined, Bool(TRUE), Undefined),
   RawRule(Str("plan"), Str("in"), Undefined, Arr(<<>>), Bool(TRUE), Undefined),
   RawRule(Str("plan"), Str("not_in"), Undefined, Arr(<<Str("pro"), Null>>),
           Bool(TRUE), Undefined),
   RawRule(Str("plan"), Str("in"), Undefined, Arr(<<Str("pro"), Num(30)>>),
           Bool(FALSE), Undefined),
   RawRule(Str("plan"), Str("equals"), Undefined, Arr(<<Str("pro")>>),
           Bool(TRUE), Undefined),
   RawRule(Str("plan"), Str("equals"), Null, Undefined, Bool(TRUE), Undefined),
   RawRule(Str("plan"), Str("in"), Str("pro"), Arr(<<Str("pro")>>), Bool(TRUE),
           Undefined),
   RawRule(Str("plan"), Str("equals"), Str("pro"), Arr(<<Str("pro")>>),
           Bool(TRUE), Undefined),
   RawRule(Str("plan"), Str("equals"), Str("pro"), Undefined, Str("true"),
           Num(30)),
   RawRule(Str("email"), Str("matches_regex"), Str("("), Undefined, Bool(TRUE),
           Num(30)),
   RawRule(Str("email"), Str("matches_regex"), Str("a.x"), Undefined,
           Bool(TRUE), Str("abc")),
   RawRule(Str("age"), Str("greater_than"), Num(18), Undefined, Bool(TRUE),
           Num(30))}

RawEnvironments ==
  {Null, Str("abc"), Doc(<<>>, <<>>),
   Doc(<<"prod", "dev">>, [e \in {"prod", "dev"} |-> Bool(e = "prod")]),
   Doc(<<"prod", "dev">>,
       [e \in {"prod", "dev"} |-> IF e = "prod" THEN Str("true") ELSE Num(30)]),
   Doc(<<"dev", "1">>,
       [e \in {"dev", "1"} |-> IF e = "dev" THEN Null ELSE Str("abc")])}

\* One field of the body in each of its shapes, the others valid or absent.
ShapeFlags ==
  {RawFlag(Bool(TRUE), Undefined, ro, Str("abc"), Undefined, Undefined) :
     ro \in RawRollouts}
  \cup {RawFlag(Bool(FALSE), Undefined, Undefined, Arr(rules), Null, Undefined) :
          rules \in SeqsUpTo(RawRules, MaxRules)}
  \cup {RawFlag(Bool(TRUE), Undefined, Undefined, Arr(<<r>>), Undefined,
                Undefined) :
          r \in RawRules}
  \cup {RawFlag(Bool(TRUE), Undefined, Undefined, Undefined, envs, Str("abc")) :
          envs \in RawEnvironments}
  \cup {RawFlag(Bool(TRUE), de, Obj([percentage |-> Num(50)]), Undefined,
                Undefined, me) :
          de \in {Str(""), Str("a*501")},
          me \in {Undefined, Arr(<<>>), Obj(<<>>)}}
  \cup {MinimalFlag, DisabledFlag, Null, Str("abc"), Num(30), Bool(TRUE),
        Arr(<<>>)}

RawNames == {"f1", "a-b_1", "1", "2", "10", "01", "F1", "", "a*101"}

\* One flag of every shape; two flags under every pair of names, in both
\* document orders; and the values that are no mapping of flags.
Documents ==
  {Doc(<<"f1">>, [n \in {"f1"} |-> f]) : f \in FieldFlags \cup ShapeFlags}
  \cup {Doc(<<n>>, [k \in {n} |-> f]) :
          n \in RawNames, f \in {MinimalFlag, BadEnabledFlag}}
  \cup {Doc(<<p[1], p[2]>>, [k \in {p[1], p[2]} |-> IF k = p[1] THEN f ELSE g]) :
          p \in {q \in RawNames \X RawNames : q[1] # q[2]},
          f \in {MinimalFlag, BadEnabledFlag},
          g \in {DisabledFlag, BadEnabledFlag, Null}}
  \cup {Doc(<<>>, <<>>), Null, Undefined, Str("abc"), Num(30), Bool(TRUE),
        Arr(<<>>), Arr(<<MinimalFlag>>)}

Files ==
  {YamlFile(d) : d \in Documents}
    \cup {MissingFile, UnparsableFile, UnreadableFile}

\* The file a caller hands to the parser, or its parsed value to the
\* validator.
InitValidate ==
  /\ file \in Files
  /\ last = NoCall
  /\ config = <<>>
  /\ strict = FALSE
  /\ client = NoClient

\* ConfigValidator.validate(parsed)
Validate ==
  /\ file.t = "yaml"
  /\ last' = [op |-> "validate", completion |-> validate(file.parsed)]
  /\ UNCHANGED <<config, strict, client, file>>

\* ConfigParser.parseYAML(content)
ParseYAML ==
  /\ file.t \in {"yaml", "unparsable"}
  /\ last' = [op |-> "parseYAML", completion |-> parseYAML(file)]
  /\ UNCHANGED <<config, strict, client, file>>

\* ConfigParser.parseFile(filePath)
ParseFile ==
  /\ last' = [op |-> "parseFile", completion |-> parseFile(file)]
  /\ UNCHANGED <<config, strict, client, file>>

NextValidate == Validate \/ ParseYAML \/ ParseFile

SpecValidate == InitValidate /\ [][NextValidate]_vars

(***************************************************************************)
(* What a violation is, stated field by field without an order; the claims *)
(* about the validator compare the one error it raises with these.         *)
(***************************************************************************)
IsValidate == last.op = "validate"

IsMapping(d) == d.t = "object"

NamesOf(d) == {d.keys[i] : i \in 1..Len(d.keys)}

PositionOf(d, n) == CHOOSE i \in 1..Len(d.keys) : d.keys[i] = n

BadName(n) ==
  \/ Chars(n) = <<>>
  \/ \E i \in 1..Len(Chars(n)) :
       Chars(n)[i] \notin {Lowercase[k] : k \in 1..26}
                            \cup {Digits[k] : k \in 1..10} \cup {"_", "-"}
  \/ Len(Chars(n)) > MAX_FLAG_NAME_LENGTH

BadRuleDoc(r) ==
  LET operator == Prop(r, "operator")
      operandOk ==
        IF operator.s \in {"in", "not_in"}
          THEN /\ IsArray(Prop(r, "values"))
               /\ Prop(r, "values").a # <<>>
               /\ \A i \in 1..Len(Prop(r, "values").a) :
                    IsPrimitive(Prop(r, "values").a[i])
        ELSE /\ IsPrimitive(Prop(r, "value"))
             /\ operator.s = "matches_regex" =>
                  ~RegExpThrows(StringOf(Prop(r, "value")))
  IN ~(/\ r.t = "object"
       /\ Prop(r, "attribute").t = "string"
       /\ Prop(r, "attribute").s # ""
       /\ operator.t = "string"
       /\ operator.s \in Operators
       /\ operandOk
       /\ Prop(r, "enabled").t = "boolean"
       /\ Prop(r, "description").t \in {"undefined", "string"})

BadPart(f, part) ==
  LET v == Prop(f, part) IN
  CASE part = "enabled" -> v.t # "boolean"
    [] part = "description" ->
         /\ v # Undefined
         /\ (v.t # "string" \/ Len(Chars(v.s)) > MAX_DESCRIPTION_LENGTH)
    [] part = "rollout" ->
         /\ v # Undefined
         /\ ~(/\ Prop(v, "percentage").t = "number"
              /\ Prop(v, "percentage").n \in 0..100
              /\ Prop(v, "seed").t \in {"undefined", "string"})
    [] part = "targeting" ->
         /\ v # Undefined
         /\ (~IsArray(v) \/ \E i \in 1..Len(v.a) : BadRuleDoc(v.a[i]))
    [] part = "environments" ->
         /\ v # Undefined
         /\ ~(/\ v.t = "object"
              /\ \A e \in DOMAIN v.o : v.o[e].t = "boolean")
    [] part = "metadata" -> v # Undefined /\ v.t # "object"

BodyParts ==
  <<"enabled", "description", "rollout", "targeting", "environments",
    "metadata">>

\* The body is no object at all (an array passes the typeof test).
NoBody(f) == f.t \notin {"object", "array"}

BadFlag(d, n) ==
  \/ BadName(n)
  \/ NoBody(d.o[n])
  \/ \E k \in 1..Len(BodyParts) : BadPart(d.o[n], BodyParts[k])

\* The value the field path of an error leads to in the document.
ValueAt(d, field) ==
  LET body == d.o[field.flag]
      part == Prop(body, field.part)
      item == IF field.index = -1 THEN part ELSE part.a[field.index + 1]
  IN IF field.part = "" THEN body
     ELSE IF field.sub = "" THEN item
     ELSE Prop(item, field.sub)

\* err is the violation of flag n that comes first: its name, else its body
\* as a whole, else the first bad part in the order of BodyParts (for
\* targeting the rule of least index), with the path and value of that
\* violation.
FirstViolationOf(d, n, err) ==
  IF BadName(n)
    THEN err.field = Field("", "flagName", -1, "") /\ err.value = Str(n)
  ELSE IF NoBody(d.o[n])
    THEN err.field = Field(n, "", -1, "") /\ err.value = d.o[n]
  ELSE
    LET k == CHOOSE k \in 1..Len(BodyParts) :
               /\ BadPart(d.o[n], BodyParts[k])
               /\ \A j \in 1..(k - 1) : ~BadPart(d.o[n], BodyParts[j])
        targeting == Prop(d.o[n], "targeting")
    IN /\ err.field.flag = n
       /\ err.field.part = BodyParts[k]
       /\ (BodyParts[k] = "targeting" /\ IsArray(targeting)) =>
            /\ err.field.index >= 0
            /\ BadRuleDoc(targeting.a[err.field.index + 1])
            /\ \A i \in 1..err.field.index : ~BadRuleDoc(targeting.a[i])
       /\ (BodyParts[k] # "targeting" \/ ~IsArray(targeting)) =>
            err.field.index = -1
       /\ LET at == ValueAt(d, err.field) IN
          \/ err.value = at
          \/ IsArray(at) /\ \E i \in 1..Len(at.a) : err.value = at.a[i]

\* n comes before m in the document.
DocumentOrder(d, n, m) == PositionOf(d, n) < PositionOf(d, m)

\* n comes before m in Object.keys: array-index names in ascending numeric
\* order first, then the other names in document order.
KeyOrder(d, n, m) ==
  LET index(k) == IsArrayIndex(Chars(k)) IN
  IF index(n) /\ index(m)
    THEN DigitsToNat(Chars(n)) < DigitsToNat(Chars(m))
  ELSE IF index(n) # index(m) THEN index(n)
  ELSE PositionOf(d, n) < PositionOf(d, m)

\* The completion of the latest validate call is what the claim says: no
\* error for a valid mapping, else one ValidationError for the first
\* violation of the first bad flag under Before; a value that is no mapping
\* of flags is rejected with (carries) or without a field path and value.
ValidateReports(Before(_, _, _), carries) ==
  LET d == file.parsed
      err == last.completion
      bad == {n \in NamesOf(d) : BadFlag(d, n)}
  IN IF ~IsMapping(d)
       THEN /\ err.t = "throw"
            /\ err.e = "ValidationError"
            /\ IF carries THEN err.field # Undefined
               ELSE err.field = Undefined /\ err.value = Undefined
     ELSE IF bad = {} THEN err = Done
     ELSE /\ err.t = "throw"
          /\ err.e = "ValidationError"
          /\ FirstViolationOf(d, CHOOSE n \in bad :
                                   \A m \in bad \ {n} : Before(d, n, m), err)

\* C20 (as stated): validate raises one ValidationError for the first
\* violation, taking the flags in document order, each flag's name before
\* its body, and in the body enabled, description, rollout, targeting (rules
\* by index), environments, metadata; the error carries the field path and
\* the offending value; a valid input raises nothing.
C20_FirstInDocumentOrder ==
  IsValidate => ValidateReports(DocumentOrder, TRUE)

\* C20 (amended): the same, with the flags taken in the order of
\* Object.keys (names that are array indices first, ascending, then the
\* others in document order), and with no field path and no value on the
\* error that rejects an input that is not a mapping of flags.
C20_FirstInKeyOrder ==
  IsValidate => ValidateReports(KeyOrder, FALSE)

\* Two invalid flags, "f1" written before "1": the error is the one of "1".
C20_Witness ==
  /\ IsValidate
  /\ IsMapping(file.parsed)
  /\ file.parsed.keys = <<"f1", "1">>
  /\ BadFlag(file.parsed, "f1")
  /\ BadFlag(file.parsed, "1")
  /\ last.completion.t = "throw"
  /\ last.completion.field.flag = "1"

\* C19 (as stated): the engine's snapshot is, in every reachable state, a
\* configuration that ConfigValidator.validate accepts, whichever way it was
\* installed.
C19_SnapshotValidated == validate(DocumentOf(config)) = Done

(***************************************************************************)
(* DevBoltClient (sdk-js/src/client.ts)                                    *)
(*                                                                         *)
(* client holds the fields of the client object: exists (the constructor   *)
(* returned), engine (this.engine !== null; its snapshot is config),       *)
(* initialized (state.initialized), hasPath (configPath was resolved),     *)
(* throwOnError, watching (the file watcher runs), pending (a change event *)
(* of the watcher is due) and fallbacks.  strict is the client's strict    *)
(* option, which it passes to its engine.  The callbacks onError,          *)
(* onConfigUpdate and onFlagEvaluated return normally; a call records how  *)
(* often it invoked onError.                                               *)
(***************************************************************************)
Client(exists, engine, initialized, hasPath, throwOnError, watching, fallbacks) ==
  [t |-> "client", exists |-> exists, engine |-> engine,
   initialized |-> initialized, hasPath |-> hasPath,
   throwOnError |-> throwOnError, watching |-> watching, pending |-> FALSE,
   fallbacks |-> fallbacks]

\* Mutant of handleError: the error is reported and never thrown.
handleError_silent(cl, error) == [onError |-> 1, completion |-> Done]

\* DevBoltClient.handleError(error)
handleError(cl, error) ==
  [onError |-> 1, completion |-> IF cl.throwOnError THEN error ELSE Done]

\* ConfigLoader.loadConfig(this.configPath), the file at that path being f.
loadConfig(cl, f) == parseFile(IF cl.hasPath THEN f ELSE MissingFile)

\* Mutant of reloadConfigFrom: a failed load drops the engine.
reloadConfigFrom_dropOnFailure(cl, cfg, loaded) ==
  IF loaded.t = "throw"
    THEN handleError(cl, loaded)
           @@ [client |-> [cl EXCEPT !.engine = FALSE], config |-> <<>>]
  ELSE [client |-> [cl EXCEPT !.engine = TRUE], config |-> loaded.v.o,
        onError |-> 0, completion |-> Done]

\* DevBoltClient.reloadConfig() from the completion of loadConfig: the
\* client, its engine's snapshot, the number of onError calls and the
\* completion.
reloadConfigFrom(cl, cfg, loaded) ==
  IF loaded.t = "throw"
    THEN handleError(cl, loaded) @@ [client |-> cl, config |-> cfg]
  ELSE [client |-> [cl EXCEPT !.engine = TRUE], config |-> loaded.v.o,
        onError |-> 0, completion |-> Done]

\* DevBoltClient.reloadConfig(), the file at configPath being f.
reloadConfig(cl, cfg, f) == reloadConfigFrom(cl, cfg, loadConfig(cl, f))

\* The constructor after findConfigPath, from the completion of loadConfig
\* (of findConfigPath, when the file is missing).
constructFrom(hasPath, loaded, throwOnError, autoReload, fallbacks) ==
  IF loaded.t = "throw"
    THEN handleError(Client(~throwOnError, FALSE, FALSE, hasPath,
                            throwOnError, FALSE, fallbacks), loaded)
           @@ [client |-> Client(~throwOnError, FALSE, FALSE, hasPath,
                                 throwOnError, FALSE, fallbacks),
               config |-> <<>>]
  ELSE [client |-> Client(TRUE, TRUE, TRUE, TRUE, throwOnError, autoReload,
                          fallbacks),
        config |-> loaded.v.o, onError |-> 0, completion |-> Done]

\* new DevBoltClient({ configPath, throwOnError, autoReload, fallbacks }),
\* the file at configPath being f.
construct(f, throwOnError, autoReload, fallbacks) ==
  constructFrom(f.t # "missing", parseFile(f), throwOnError, autoReload,
                fallbacks)

\* DevBoltClient.isInitialized()
isInitialized(cl) == cl.initialized /\ cl.engine

\* this.fallbacks[flagName] ?? false
fallbackOf(cl, flagName) ==
  IF flagName \in DOMAIN cl.fallbacks THEN cl.fallbacks[flagName] ELSE FALSE

\* The result DevBoltClient.evaluate builds itself.
fallbackResult(cl, flagName, reason) ==
  Return(createResult(flagName, fallbackOf(cl, flagName), [text |-> reason],
                      NoMetadata))

\* Mutant of clientEvaluateFrom: the engine's "Flag not found" result is
\* replaced by the configured fallback.
clientEvaluateFrom_fallbackForMissing(cl, strictMode, flagName, r) ==
  IF r.t = "return"
    THEN [onError |-> 0,
          completion |->
            IF r.v.reason = [text |-> "Flag not found"]
              THEN fallbackResult(cl, flagName,
                                  "Flag not found, using fallback")
            ELSE r]
  ELSE IF cl.throwOnError THEN handleError(cl, r)
  ELSE [handleError(cl, r) EXCEPT
          !.completion = fallbackResult(cl, flagName, "Error evaluating flag: ")]

\* DevBoltClient.evaluate once initialized, from the completion r of
\* this.engine.evaluate.
clientEvaluateFrom(cl, strictMode, flagName, r) ==
  IF r.t = "return" THEN [onError |-> 0, completion |-> r]
  ELSE IF r = Throw("FlagNotFoundError") /\ ~strictMode
    THEN [onError |-> 0,
          completion |->
            fallbackResult(cl, flagName, "Flag not found, using fallback")]
  ELSE IF cl.throwOnError THEN handleError(cl, r)
  ELSE [handleError(cl, r) EXCEPT
          !.completion = fallbackResult(cl, flagName, "Error evaluating flag: ")]

\* Mutant of clientEvaluate: without an engine a strict client signals
\* FlagNotFoundError.
clientEvaluate_strictThrows(cl, cfg, strictMode, flagName, context) ==
  IF ~isInitialized(cl)
    THEN [onError |-> 0,
          completion |->
            IF strictMode THEN Throw("FlagNotFoundError")
            ELSE fallbackResult(cl, flagName,
                                "Client not initialized, using fallback")]
  ELSE clientEvaluateFrom(cl, strictMode, flagName,
                          engineEvaluateWith(cfg, strictMode, flagName,
                                             context))

\* DevBoltClient.evaluate(flagName, context), with an empty defaultContext.
clientEvaluate(cl, cfg, strictMode, flagName, context) ==
  IF ~isInitialized(cl)
    THEN [onError |-> 0,
          completion |->
            fallbackResult(cl, flagName,
                           "Client not initialized, using fallback")]
  ELSE clientEvaluateFrom(cl, strictMode, flagName,
                          engineEvaluateWith(cfg, strictMode, flagName,
                                             context))

ValidDocuments ==
  {Doc(<<"f1">>, [n \in {"f1"} |-> MinimalFlag]),
   Doc(<<"f2", "f1">>,
       [n \in FlagNames |->
          IF n = "f1" THEN DisabledFlag
          ELSE RawFlag(Bool(TRUE), Str("abc"), Obj([percentage |-> Num(50)]),
                       Arr(<<GoodRule>>), GoodEnvironments, Undefined)])}

\* The file at the configured path: missing, not YAML, empty, invalid, valid.
ClientFiles ==
  {MissingFile, UnparsableFile, YamlFile(Null),
   YamlFile(Doc(<<"f1">>, [n \in {"f1"} |-> BadEnabledFlag]))}
  \cup {YamlFile(d) : d \in ValidDocuments}

Fallbacks == {<<>>, [n \in {"f1"} |-> TRUE]}

InitClient ==
  /\ file \in ClientFiles
  /\ strict \in BOOLEAN
  /\ \E throwOnError \in BOOLEAN, autoReload \in BOOLEAN,
        fallbacks \in Fallbacks :
       \E c \in {construct(file, throwOnError, autoReload, fallbacks)} :
         /\ client = c.client
         /\ config = c.config
         /\ last = [op |-> "construct", onError |-> c.onError,
                    completion |-> c.completion]

\* The file is written, replaced or removed.  The watcher reports a change
\* of the content of a file that stays in place.
ChangeFile(f) ==
  /\ f # file
  /\ file' = f
  /\ client' = IF /\ client.exists
                  /\ client.watching
                  /\ file.t # "missing"
                  /\ f.t # "missing"
                 THEN [client EXCEPT !.pending = TRUE]
               ELSE client
  /\ last' = [op |-> "changeFile"]
  /\ UNCHANGED <<config, strict>>

\* client.reload()
Reload ==
  /\ client.exists
  /\ \E r \in {reloadConfig(client, config, file)} :
     /\ client' = r.client
     /\ config' = r.config
     /\ last' = [op |-> "reload", onError |-> r.onError,
                 completion |-> r.completion,
                 before |-> [client |-> client, config |-> config]]
  /\ UNCHANGED <<strict, file>>

\* The watcher's "change" callback: this.reloadConfig()
WatcherReload ==
  /\ client.exists
  /\ client.watching
  /\ client.pending
  /\ \E r \in {reloadConfig(client, config, file)} :
     /\ client' = [r.client EXCEPT !.pending = FALSE]
     /\ config' = r.config
     /\ last' = [op |-> "watcherReload", onError |-> r.onError,
                 completion |-> r.completion,
                 before |-> [client |-> client, config |-> config]]
  /\ UNCHANGED <<strict, file>>

\* client.evaluate(flagName, context)
ClientEvaluate(flagName, context) ==
  /\ client.exists
  /\ \E r \in {clientEvaluate(client, config, strict, flagName, context)} :
     last' = [op |-> "clientEvaluate", flagName |-> flagName,
              context |-> context, onError |-> r.onError,
              completion |-> r.completion]
  /\ UNCHANGED <<config, strict, client, file>>

\* client.destroy()
Destroy ==
  /\ client.exists
  /\ client' = [client EXCEPT !.engine = FALSE, !.initialized = FALSE,
                              !.watching = FALSE, !.pending = FALSE]
  /\ config' = <<>>
  /\ last' = [op |-> "destroy"]
  /\ UNCHANGED <<strict, file>>

NextClient ==
  \/ \E f \in ClientFiles : ChangeFile(f)
  \/ Reload
  \/ WatcherReload
  \/ \E flagName \in EngineFlagNames, context \in EngineContexts :
       ClientEvaluate(flagName, context)
  \/ Destroy

SpecClient == InitClient /\ [][NextClient]_vars

\* ---------------------------------------------------------------------
\* Properties of the client
\* ---------------------------------------------------------------------

IsReload == last.op \in {"reload", "watcherReload"}

\* The completion of the load the last reload made.
ReloadLoaded == loadConfig(last.before.client, file)

\* What the last constructor call or reload was given by its load.
LastLoaded ==
  IF last.op = "construct" THEN parseFile(file) ELSE ReloadLoaded

\* Every evaluate the client answers in the two states, compared.
SameDecisions(cl1, cfg1, cl2, cfg2) ==
  \A flagName \in EngineFlagNames, context \in EngineContexts :
    clientEvaluate(cl1, cfg1, strict, flagName, context)
      = clientEvaluate(cl2, cfg2, strict, flagName, context)

\* C13: a reload (reload() or the watcher's) whose load fails, the file
\* being missing, unparsable or invalid, leaves the client as it was: the
\* engine and its snapshot are the previous ones, isInitialized() is what it
\* was (Ready stays Ready, Uninitialized stays Uninitialized) and every
\* evaluate returns what it returned before the reload.
C13_FailedReloadKeepsState ==
  (IsReload /\ ReloadLoaded.t = "throw") =>
    /\ config = last.before.config
    /\ client.engine = last.before.client.engine
    /\ isInitialized(client) = isInitialized(last.before.client)
    /\ SameDecisions(client, config, last.before.client, last.before.config)

\* A Ready client with a snapshot of two flags has just failed a
\* watcher-triggered reload of a file that no longer validates.
C13_Witness ==
  /\ last.op = "watcherReload"
  /\ ReloadLoaded.t = "throw"
  /\ file.t = "yaml"
  /\ isInitialized(client)
  /\ DOMAIN config = FlagNames

\* C14: a reload whose load succeeds, made by a client that was not
\* initialized, makes isInitialized() true, and evaluate is then decided
\* by the loaded snapshot and not by the not-initialized fallback.
C14_ReloadInitializes ==
  (IsReload /\ ReloadLoaded.t = "return"
     /\ ~isInitialized(last.before.client)) =>
    /\ isInitialized(client)
    /\ \A flagName \in EngineFlagNames, context \in EngineContexts :
         clientEvaluate(client, config, strict, flagName, context).completion
           # fallbackResult(client, flagName,
                            "Client not initialized, using fallback")

UninitializedEvaluate == last.op = "clientEvaluate" /\ ~isInitialized(client)

IsLoad == last.op \in {"construct", "reload", "watcherReload"}

\* C17: every failed load, by the constructor or by a reload, calls onError
\* exactly once with the error and throws that error to the caller exactly
\* when throwOnError is set; a load that succeeds calls onError never and
\* throws nothing.
C17_LoadFailureSurfaced ==
  IsLoad =>
    IF LastLoaded.t = "throw"
      THEN /\ last.onError = 1
           /\ last.completion
                = IF client.throwOnError THEN LastLoaded ELSE Done
    ELSE last.onError = 0 /\ last.completion = Done

\* A reload of a file that fails validation has thrown the ValidationError
\* to the caller of reload(), throwOnError being set.
C17_Witness ==
  /\ last.op = "reload"
  /\ client.throwOnError
  /\ LastLoaded.t = "throw"
  /\ LastLoaded.e = "ValidationError"
  /\ last.onError = 1
  /\ last.completion = LastLoaded

\* ---------------------------------------------------------------------
\* Properties of accepted targeting rules
\* ---------------------------------------------------------------------

\* The targeting rules of the document validate has just accepted.
AcceptedRules ==
  IF IsValidate /\ last.completion = Done /\ IsMapping(file.parsed)
    THEN UNION {LET targeting == Prop(file.parsed.o[n], "targeting") IN
                IF IsArray(targeting)
                  THEN {targeting.a[i] : i \in 1..Len(targeting.a)}
                ELSE {} : n \in NamesOf(file.parsed)}
  ELSE {}

IsMembership(r) == Prop(r, "operator").s \in {"in", "not_in"}

ScalarValues(r) ==
  /\ IsArray(Prop(r, "values"))
  /\ Prop(r, "values").a # <<>>
  /\ \A i \in 1..Len(Prop(r, "values").a) : IsPrimitive(Prop(r, "values").a[i])

\* C21 as stated: every rule validate accepts carries exactly one of value
\* and values: in/not_in a non-empty values array of scalars and no value,
\* every other operator a scalar value and no values.
C21_ExactlyOneOperand ==
  \A r \in AcceptedRules :
    IF IsMembership(r)
      THEN ScalarValues(r) /\ Prop(r, "value") = Undefined
    ELSE IsPrimitive(Prop(r, "value")) /\ Prop(r, "values") = Undefined

\* C21 amended: every rule validate accepts carries the operand its
\* operator family requires: in/not_in a non-empty values array of scalars,
\* every other operator a scalar value; the operand of the other family is
\* not examined and may be present as well.
C21_RequiredOperand ==
  \A r \in AcceptedRules :
    IF IsMembership(r) THEN ScalarValues(r)
    ELSE IsPrimitive(Prop(r, "value"))

\* validate has accepted an in rule that carries a values array and a value.
C21_Witness ==
  \E r \in AcceptedRules :
    /\ IsMembership(r)
    /\ ScalarValues(r)
    /\ Prop(r, "value") # Undefined

\* ---------------------------------------------------------------------
\* Properties of the parser
\* ---------------------------------------------------------------------

IsParse == last.op \in {"parseYAML", "parseFile"}

\* The deserialised tree violates a validation rule.
InvalidTree(d) == ~IsMapping(d) \/ \E n \in NamesOf(d) : BadFlag(d, n)

\* C22: a file that cannot be read (missing or unreadable) and a text that
\* is not YAML give ConfigParseError; an empty document gives the empty
\* configuration; a deserialised tree that violates a validation rule, a
\* top level that is no object included, gives ValidationError, never a
\* ConfigParseError; every other tree is returned.
C22_DisjointFailures ==
  IsParse =>
    IF file.t # "yaml"
      THEN last.completion.t = "throw" /\ last.completion.e = "ConfigParseError"
    ELSE IF file.parsed \in {Null, Undefined}
      THEN last.completion = Return(Obj(<<>>))
    ELSE IF InvalidTree(file.parsed)
      THEN last.completion.t = "throw" /\ last.completion.e = "ValidationError"
    ELSE last.completion.t = "return"

\* parseFile has rejected a file whose tree is a mapping with an invalid
\* flag, with a ValidationError.
C22_Witness ==
  /\ last.op = "parseFile"
  /\ file.t = "yaml"
  /\ IsMapping(file.parsed)
  /\ InvalidTree(file.parsed)
  /\ last.completion.t = "throw"
  /\ last.completion.e = "ValidationError"

(***************************************************************************)
(* Listing the flag names (engine.ts getAllFlags)                          *)
(*                                                                         *)
(* The snapshot is the object ConfigParser.parseYAML returned: file keeps  *)
(* that object with the insertion order of its keys, config is the         *)
(* snapshot the evaluator reads.                                           *)
(***************************************************************************)
MaxFlags == 3

\* Valid flag names, purely numeric ones among them.
ListedNames == {"f1", "a-b_1", "1", "2", "10"}

\* Sequences of at most n distinct elements of S.
DistinctSeqsUpTo(S, n) ==
  {q \in SeqsUpTo(S, n) : \A i, j \in 1..Len(q) : i # j => q[i] # q[j]}

\* Valid documents: the names in every insertion order.
ListedFiles ==
  {YamlFile(Doc(names, [n \in {names[i] : i \in 1..Len(names)} |->
                          IF n = "f1" THEN DisabledFlag ELSE MinimalFlag])) :
     names \in DistinctSeqsUpTo(ListedNames, MaxFlags)}

\* Object.keys(this.config), the snapshot being the object doc.
allFlagNames(doc) == ObjectKeys(doc)

\* FlagEngine.fromYAML(yaml)
InitListing ==
  /\ file \in ListedFiles
  /\ config = parseYAML(file).v.o
  /\ last = [op |-> "fromYAML"]
  /\ strict = FALSE
  /\ client = NoClient

\* engine.updateConfig(ConfigParser.parseYAML(yaml))
UpdateFromYAML(f) ==
  /\ file' = f
  /\ config' = parseYAML(f).v.o
  /\ last' = [op |-> "updateConfig"]
  /\ UNCHANGED <<strict, client>>

\* engine.getAllFlags()
ListAllFlags ==
  /\ last' = [op |-> "getAllFlags", names |-> allFlagNames(file.parsed)]
  /\ UNCHANGED <<config, strict, client, file>>

NextListing ==
  \/ \E f \in ListedFiles : UpdateFromYAML(f)
  \/ ListAllFlags

SpecListing == InitListing /\ [][NextListing]_vars

\* C23: getAllFlags returns the flag names of the snapshot in insertion
\* order, for every set of valid names, purely numeric names included, also
\* after updateConfig.
C23_InsertionOrder ==
  (last.op = "getAllFlags" /\ "names" \in DOMAIN last) =>
    /\ last.names = file.parsed.keys
    /\ {last.names[i] : i \in 1..Len(last.names)} = DOMAIN config

\* ---------------------------------------------------------------------
\* Fallback values of the client
\* ---------------------------------------------------------------------

IsClientEvaluate == last.op = "clientEvaluate"

\* The reasons of the results DevBoltClient.evaluate builds from fallbacks.
FallbackReasons ==
  {[text |-> "Client not initialized, using fallback"],
   [text |-> "Flag not found, using fallback"],
   [text |-> "Error evaluating flag: "]}

\* C24: an initialized non-strict client evaluating a flag that is not in
\* the snapshot returns the engine's disabled result and throws nothing,
\* whatever fallback is configured for the flag; a result built from the
\* fallbacks is returned only by a client that is not initialized or after
\* the engine's evaluate threw.
C24_FallbackOnlyOnError ==
  IsClientEvaluate =>
    /\ (isInitialized(client) /\ ~strict /\ last.flagName \notin DOMAIN config)
         => /\ last.onError = 0
            /\ last.completion.t = "return"
            /\ last.completion.v.enabled = FALSE
            /\ last.completion.v.reason = [text |-> "Flag not found"]
    /\ (last.completion.t = "return"
          /\ last.completion.v.reason \in FallbackReasons)
         => \/ ~isInitialized(client)
            \/ engineEvaluateWith(config, strict, last.flagName,
                                  last.context).t = "throw"

\* An initialized non-strict client whose fallback for f1 is true has
\* evaluated f1, which the snapshot does not hold: the result is disabled.
C24_Witness ==
  /\ IsClientEvaluate
  /\ isInitialized(client)
  /\ ~strict
  /\ last.flagName \notin DOMAIN config
  /\ last.flagName \in DOMAIN client.fallbacks
  /\ client.fallbacks[last.flagName]
  /\ last.completion.t = "return"
  /\ ~last.completion.v.enabled

(***************************************************************************)
(* The SDK singleton (sdk-js/src/index.ts)                                 *)
(*                                                                         *)
(* client holds the module's state: defaultInstance (0 for null, else the  *)
(* position in instances of the client it refers to), instances (every     *)
(* DevBoltClient created so far) and tasks, the asynchronous destroy       *)
(* calls that have not completed.  A task is the destroy of the client at  *)
(* inst: stopping while its "await this.fileWatcher.stop()" is pending,    *)
(* thenNull when it was started by the module's destroy(), which assigns   *)
(* defaultInstance = null after its "await defaultInstance.destroy()".     *)
(* expected records what the calls made so far were: the position of the   *)
(* client the latest initialize() created and initialized, 0 after a       *)
(* failed initialize() or a destroy().                                     *)
(***************************************************************************)
MaxInstances == 3

MaxPending == 2

Singleton(defaultInstance, instances, tasks, expected) ==
  [t |-> "singleton", defaultInstance |-> defaultInstance,
   instances |-> instances, tasks |-> tasks, expected |-> expected]

Task(inst, stopping, thenNull) ==
  [inst |-> inst, stopping |-> stopping, thenNull |-> thenNull]

RemoveAt(q, k) == [i \in 1..(Len(q) - 1) |-> IF i < k THEN q[i] ELSE q[i + 1]]

\* DevBoltClient.destroy() after its await: the watcher is dropped, the
\* engine is set to null and state.initialized to false.
destroyed(cl) ==
  [cl EXCEPT !.engine = FALSE, !.initialized = FALSE, !.watching = FALSE,
             !.pending = FALSE]

\* DevBoltClient.destroy() up to its first await: a client with a file
\* watcher suspends at "await this.fileWatcher.stop()", any other runs to
\* its end.
destroyStarted(cl) == IF cl.watching THEN cl ELSE destroyed(cl)

\* defaultInstance.destroy() called on the current instance, if there is
\* one: the instances and the tasks after the synchronous part of the call.
startDestroy(sg, thenNull) ==
  IF sg.defaultInstance = 0 THEN sg
  ELSE [sg EXCEPT
          !.instances[sg.defaultInstance] = destroyStarted(@),
          !.tasks =
            IF thenNull \/ sg.instances[sg.defaultInstance].watching
              THEN Append(@, Task(sg.defaultInstance,
                                  sg.instances[sg.defaultInstance].watching,
                                  thenNull))
            ELSE @]

\* initialize(options) once the existing instance was told to destroy
\* itself, c being the outcome of new DevBoltClient(options).
initializeFrom(sg, c) ==
  IF c.completion.t = "throw"
    THEN [sg |-> [sg EXCEPT !.expected = 0], completion |-> c.completion]
  ELSE [sg |-> [sg EXCEPT
                  !.instances = Append(@, c.client),
                  !.defaultInstance = Len(sg.instances) + 1,
                  !.expected = IF isInitialized(c.client)
                                 THEN Len(sg.instances) + 1
                               ELSE 0],
        completion |-> Return(Len(sg.instances) + 1)]

\* initialize(options), the file at options.configPath being f.
initialize(sg, f, throwOnError, autoReload) ==
  initializeFrom(startDestroy(sg, FALSE),
                 construct(f, throwOnError, autoReload, <<>>))

\* destroy() of the module up to its await.
destroy(sg) == [startDestroy(sg, TRUE) EXCEPT !.expected = 0]

\* isInitialized() of the module
singletonIsInitialized(sg) ==
  /\ sg.defaultInstance # 0
  /\ isInitialized(sg.instances[sg.defaultInstance])

\* getInstance()
getInstance(sg) ==
  IF sg.defaultInstance = 0 THEN Throw("not initialized")
  ELSE Return(sg.defaultInstance)

\* evaluate(flagName, context) and isEnabled(flagName, context) of the
\* module throw before they reach the client.
singletonEvaluateThrows(sg) == sg.defaultInstance = 0

SingletonFiles ==
  {MissingFile, YamlFile(Doc(<<"f1">>, [n \in {"f1"} |-> MinimalFlag]))}

InitSingleton ==
  /\ client = Singleton(0, <<>>, <<>>, 0)
  /\ last = NoCall
  /\ config = <<>>
  /\ strict = FALSE
  /\ file = NoFile

\* initialize({ configPath, throwOnError, autoReload })
Initialize(f, throwOnError, autoReload) ==
  /\ Len(client.instances) < MaxInstances
  /\ Len(client.tasks) < MaxPending
  /\ \E r \in {initialize(client, f, throwOnError, autoReload)} :
       /\ client' = r.sg
       /\ last' = [op |-> "initialize", completion |-> r.completion]
  /\ UNCHANGED <<config, strict, file>>

\* destroy(), up to its await
SingletonDestroy ==
  /\ Len(client.tasks) < MaxPending
  /\ client' = destroy(client)
  /\ last' = [op |-> "destroy"]
  /\ UNCHANGED <<config, strict, file>>

\* fileWatcher.stop() of the task at k has resolved: the client's destroy
\* runs to its end.
FinishStop(k) ==
  /\ k <= Len(client.tasks)
  /\ client.tasks[k].stopping
  /\ client' =
       [client EXCEPT
          !.instances[client.tasks[k].inst] = destroyed(@),
          !.tasks = IF client.tasks[k].thenNull
                      THEN [@ EXCEPT ![k].stopping = FALSE]
                    ELSE RemoveAt(@, k)]
  /\ last' = [op |-> "finishStop"]
  /\ UNCHANGED <<config, strict, file>>

\* The module's destroy() resumes after "await defaultInstance.destroy()":
\* defaultInstance = null.
FinishDestroy(k) ==
  /\ k <= Len(client.tasks)
  /\ ~client.tasks[k].stopping
  /\ client.tasks[k].thenNull
  /\ client' = [client EXCEPT !.defaultInstance = 0,
                              !.tasks = RemoveAt(@, k)]
  /\ last' = [op |-> "finishDestroy"]
  /\ UNCHANGED <<config, strict, file>>

NextSingleton ==
  \/ \E f \in SingletonFiles, throwOnError \in BOOLEAN, autoReload \in BOOLEAN :
       Initialize(f, throwOnError, autoReload)
  \/ SingletonDestroy
  \/ \E k \in 1..MaxPending : FinishStop(k)
  \/ \E k \in 1..MaxPending : FinishDestroy(k)

SpecSingleton == InitSingleton /\ [][NextSingleton]_vars

\* C25: once no destroy is pending, isInitialized() is true and
\* getInstance() returns the client of the latest initialize() exactly when
\* that initialize() succeeded and no destroy() was called after it;
\* otherwise isInitialized() is false and isEnabled, evaluate and
\* getInstance throw "not initialized".
C25_SingletonLifecycle ==
  client.tasks = <<>> =>
    IF client.expected # 0
      THEN /\ singletonIsInitialized(client)
           /\ getInstance(client) = Return(client.expected)
    ELSE /\ ~singletonIsInitialized(client)
         /\ getInstance(client) = Throw("not initialized")
         /\ singletonEvaluateThrows(client)

(***************************************************************************)
(* The CLI (cli/src/utils/config-manager.ts, cli/src/commands)             *)
(*                                                                         *)
(* file is the configuration file at .devbolt/flags.yml.  A configuration  *)
(* is the object tree the YAML text stands for: yaml.stringify followed by *)
(* yaml.parse gives back the tree of strings, numbers, booleans, maps and  *)
(* arrays it was given, keys with the value undefined left out.  A command *)
(* completes normally or ends the process (process.exit(1)).               *)
(***************************************************************************)
Exit == Throw("exit")

Names(d) == {d.keys[i] : i \in 1..Len(d.keys)}

\* ConfigManager.exists()
exists(f) == f.t # "missing"

\* ConfigManager.read() from the completion of ConfigParser.parseFile.
readFrom(f, parsed) ==
  IF ~exists(f) THEN Throw("Error")
  ELSE IF parsed.t = "throw"
    THEN IF parsed.e = "ValidationError" THEN Throw("Error") ELSE parsed
  ELSE IF f.parsed \in {Null, Undefined} THEN Return(Doc(<<>>, <<>>))
  ELSE Return(Doc(ObjectKeys(f.parsed), f.parsed.o))

\* ConfigManager.read()
read(f) == readFrom(f, parseFile(f))

\* The rule object flagConfigToPlainObject builds.
ruleToPlainObject(rule) ==
  RawRule(Prop(rule, "attribute"), Prop(rule, "operator"),
          Prop(rule, "value"), Prop(rule, "values"), Prop(rule, "enabled"),
          IF Truthy(Prop(rule, "description")) THEN Prop(rule, "description")
          ELSE Undefined)

\* Mutant of flagConfigToPlainObject: the rollout seed is not copied.
flagConfigToPlainObject_noSeed(fc) ==
  RawFlag(Prop(fc, "enabled"),
          IF Truthy(Prop(fc, "description")) THEN Prop(fc, "description")
          ELSE Undefined,
          IF Truthy(Prop(fc, "rollout"))
            THEN Obj([percentage |-> Prop(Prop(fc, "rollout"), "percentage"),
                      seed |-> Undefined])
          ELSE Undefined,
          IF IsArray(Prop(fc, "targeting")) /\ Prop(fc, "targeting").a # <<>>
            THEN Arr([i \in 1..Len(Prop(fc, "targeting").a) |->
                        ruleToPlainObject(Prop(fc, "targeting").a[i])])
          ELSE Undefined,
          IF Truthy(Prop(fc, "environments")) THEN Prop(fc, "environments")
          ELSE Undefined,
          IF Truthy(Prop(fc, "metadata")) THEN Prop(fc, "metadata")
          ELSE Undefined)

\* ConfigManager.flagConfigToPlainObject(cfg)
flagConfigToPlainObject(fc) ==
  RawFlag(Prop(fc, "enabled"),
          IF Truthy(Prop(fc, "description")) THEN Prop(fc, "description")
          ELSE Undefined,
          IF Truthy(Prop(fc, "rollout"))
            THEN Obj([percentage |-> Prop(Prop(fc, "rollout"), "percentage"),
                      seed |->
                        IF Truthy(Prop(Prop(fc, "rollout"), "seed"))
                          THEN Prop(Prop(fc, "rollout"), "seed")
                        ELSE Undefined])
          ELSE Undefined,
          IF IsArray(Prop(fc, "targeting")) /\ Prop(fc, "targeting").a # <<>>
            THEN Arr([i \in 1..Len(Prop(fc, "targeting").a) |->
                        ruleToPlainObject(Prop(fc, "targeting").a[i])])
          ELSE Undefined,
          IF Truthy(Prop(fc, "environments")) THEN Prop(fc, "environments")
          ELSE Undefined,
          IF Truthy(Prop(fc, "metadata")) THEN Prop(fc, "metadata")
          ELSE Undefined)

\* ConfigManager.write(config): the file it leaves.
write(c) ==
  YamlFile(Doc(ObjectKeys(c),
               [n \in Names(c) |-> flagConfigToPlainObject(c.o[n])]))

\* config[flagName] = flagConfig
assign(c, flagName, flagConfig) ==
  Doc(IF flagName \in Names(c) THEN c.keys ELSE Append(c.keys, flagName),
      [n \in Names(c) \cup {flagName} |->
         IF n = flagName THEN flagConfig ELSE c.o[n]])

\* delete cfg[flagName]
delete(c, flagName) ==
  Doc(SelectSeq(c.keys, LAMBDA k : k # flagName),
      [n \in Names(c) \ {flagName} |-> c.o[n]])

\* { ...flag, ...updates }
merge(flag, updates) ==
  Obj([k \in DOMAIN flag.o \cup DOMAIN updates |->
         IF k \in DOMAIN updates THEN updates[k] ELSE flag.o[k]])

\* A method of ConfigManager that changes the file: the file and the
\* completion after cfg was read.
setFlagFrom(f, cfg, flagName, flagConfig) ==
  IF cfg.t = "throw" THEN [file |-> f, completion |-> cfg]
  ELSE [file |-> write(assign(cfg.v, flagName, flagConfig)),
        completion |-> Done]

\* ConfigManager.setFlag(flagName, flagConfig)
setFlag(f, flagName, flagConfig) ==
  setFlagFrom(f, IF exists(f) THEN read(f) ELSE Return(Doc(<<>>, <<>>)),
              flagName, flagConfig)

updateFlagFrom(f, cfg, flagName, updates) ==
  IF cfg.t = "throw" THEN [file |-> f, completion |-> cfg]
  ELSE IF flagName \notin Names(cfg.v)
    THEN [file |-> f, completion |-> Throw("Error")]
  ELSE [file |-> write(assign(cfg.v, flagName,
                              merge(cfg.v.o[flagName], updates))),
        completion |-> Done]

\* ConfigManager.updateFlag(flagName, updates)
updateFlag(f, flagName, updates) ==
  updateFlagFrom(f, read(f), flagName, updates)

removeFlagFrom(f, cfg, flagName) ==
  IF cfg.t = "throw" THEN [file |-> f, completion |-> cfg]
  ELSE IF flagName \notin Names(cfg.v)
    THEN [file |-> f, completion |-> Throw("Error")]
  ELSE [file |-> write(delete(cfg.v, flagName)), completion |-> Done]

\* ConfigManager.removeFlag(flagName)
removeFlag(f, flagName) == removeFlagFrom(f, read(f), flagName)

getFlagFrom(cfg, flagName) ==
  IF cfg.t = "throw" THEN cfg
  ELSE IF flagName \in Names(cfg.v) THEN Return(cfg.v.o[flagName])
  ELSE Return(Undefined)

\* ConfigManager.getFlag(flagName)
getFlag(f, flagName) == getFlagFrom(read(f), flagName)

\* A caught error of ConfigManager ends the process.
exitOnError(r) ==
  IF r.completion.t = "throw" THEN [r EXCEPT !.completion = Exit] ELSE r

\* createCommand after getFlag, with options.yes set (no prompts): enabled
\* and description are the options given, rollout the --rollout number.
createCommandFrom(f, existingFlag, flagName, enabled, description, rollout) ==
  IF existingFlag.t = "throw" THEN [file |-> f, completion |-> existingFlag]
  ELSE IF Truthy(existingFlag.v) THEN [file |-> f, completion |-> Exit]
  ELSE exitOnError(
         setFlag(f, flagName,
                 RawFlag(IF TypeOf(enabled) = "boolean" THEN enabled
                         ELSE Bool(TRUE),
                         IF description = Undefined THEN Str("")
                         ELSE description,
                         IF rollout.t = "number" /\ rollout.n >= 0
                           THEN Obj([percentage |-> rollout])
                         ELSE Undefined,
                         Undefined, Undefined, Undefined)))

\* createCommand(flagName, { yes: true, enabled, description, rollout })
createCommand(f, flagName, enabled, description, rollout) ==
  IF ~exists(f) THEN [file |-> f, completion |-> Exit]
  ELSE createCommandFrom(f, getFlag(f, flagName), flagName, enabled,
                         description, rollout)

rolloutCommandFrom(f, flag, flagName, percentage) ==
  IF flag.t = "throw" \/ ~Truthy(flag.v) THEN [file |-> f, completion |-> Exit]
  ELSE exitOnError(
         updateFlag(f, flagName,
                    [rollout |-> Obj([percentage |-> percentage])]))

\* rolloutCommand(flagName, percentage)
rolloutCommand(f, flagName, percentage) ==
  IF ~exists(f) THEN [file |-> f, completion |-> Exit]
  ELSE IF percentage.t = "number" /\ (percentage.n < 0 \/ percentage.n > 100)
    THEN [file |-> f, completion |-> Exit]
  ELSE rolloutCommandFrom(f, getFlag(f, flagName), flagName, percentage)

\* { ...flag.environments, [env]: newState }
withEnvironment(environments, env, newState) ==
  IF environments = Undefined
    THEN Doc(<<env>>, [e \in {env} |-> newState])
  ELSE Doc(IF env \in DOMAIN environments.o THEN ObjectKeys(environments)
           ELSE Append(ObjectKeys(environments), env),
           [e \in DOMAIN environments.o \cup {env} |->
              IF e = env THEN newState ELSE environments.o[e]])

toggleCommandFrom(f, flag, flagName, state, environment) ==
  IF flag.t = "throw" \/ ~Truthy(flag.v) THEN [file |-> f, completion |-> Exit]
  ELSE IF Truthy(environment)
    THEN exitOnError(
           updateFlag(f, flagName,
                      [environments |->
                         withEnvironment(
                           Prop(flag.v, "environments"), environment.s,
                           IF state # Undefined THEN state
                           ELSE IF Prop(Prop(flag.v, "environments"),
                                        environment.s) # Undefined
                             THEN Bool(~Prop(Prop(flag.v, "environments"),
                                             environment.s).b)
                           ELSE Bool(~Prop(flag.v, "enabled").b))]))
  ELSE exitOnError(
         updateFlag(f, flagName,
                    [enabled |->
                       IF state # Undefined THEN state
                       ELSE Bool(~Prop(flag.v, "enabled").b)]))

\* toggleCommand(flagName, state, { environment })
toggleCommand(f, flagName, state, environment) ==
  IF ~exists(f) THEN [file |-> f, completion |-> Exit]
  ELSE toggleCommandFrom(f, getFlag(f, flagName), flagName, state,
                         environment)

removeCommandFrom(f, flag, flagName) ==
  IF flag.t = "throw" \/ ~Truthy(flag.v) THEN [file |-> f, completion |-> Exit]
  ELSE exitOnError(removeFlag(f, flagName))

\* removeCommand(flagName, { force: true })
removeCommand(f, flagName) ==
  IF ~exists(f) THEN [file |-> f, completion |-> Exit]
  ELSE removeCommandFrom(f, getFlag(f, flagName), flagName)

(***************************************************************************)
(* ConfigManager.write followed by ConfigManager.read                      *)
(***************************************************************************)
SeededRollout == Obj([percentage |-> Num(50), seed |-> Str("s1")])

\* Rules with and without a description, the empty one included.
WrittenRules ==
  {GoodRule,
   RawRule(Str("plan"), Str("in"), Undefined, Arr(<<Str("pro"), Num(30)>>),
           Bool(FALSE), Str("")),
   RawRule(Str("age"), Str("greater_than"), Num(0), Undefined, Bool(TRUE),
           Str("abc"))}

\* Valid flags: every optional field absent, present, and present but empty.
WrittenFlags ==
  {RawFlag(Bool(en), de, ro, tg, envs, me) :
     en \in BOOLEAN,
     de \in {Undefined, Str("abc"), Str("")},
     ro \in {Undefined, Obj([percentage |-> Num(0)]), SeededRollout,
             Obj([percentage |-> Num(100), seed |-> Str("")])},
     tg \in {Undefined, Arr(<<>>)} \cup {Arr(<<r>>) : r \in WrittenRules},
     envs \in {Undefined, GoodEnvironments, Doc(<<>>, <<>>)},
     me \in {Undefined, Obj([owner |-> Str("abc")])}}

\* Valid configurations: one flag of every shape, and several flags in
\* several orders, numeric names among them.
WrittenConfigs ==
  {Doc(<<"f1">>, [n \in {"f1"} |-> f]) : f \in WrittenFlags}
  \cup {Doc(ks, [n \in {ks[i] : i \in 1..Len(ks)} |->
                   IF n = "f1" THEN RawFlag(Bool(TRUE), Str("abc"),
                                            SeededRollout, Arr(<<GoodRule>>),
                                            GoodEnvironments, Undefined)
                   ELSE MinimalFlag]) :
          ks \in {<<>>, <<"f2", "f1">>, <<"f1", "f2">>, <<"10", "f1", "1">>}}

InitRoundTrip ==
  /\ file = MissingFile
  /\ last = NoCall
  /\ config = <<>>
  /\ strict = FALSE
  /\ client = NoClient

\* manager.write(c)
WriteConfig(c) ==
  /\ file' = write(c)
  /\ last' = [op |-> "write", config |-> c]
  /\ UNCHANGED <<config, strict, client>>

\* manager.read()
ReadConfig ==
  /\ last' = [op |-> "read", completion |-> read(file)]
  /\ UNCHANGED <<config, strict, client, file>>

NextRoundTrip ==
  \/ \E c \in WrittenConfigs : WriteConfig(c)
  \/ ReadConfig

SpecRoundTrip == InitRoundTrip /\ [][NextRoundTrip]_vars

\* y is x, or x is one of the values in dropped and y is absent.
SameOrDropped(x, y, dropped) == y = x \/ (x \in dropped /\ y = Undefined)

SameRule(a, b, dropped) ==
  /\ \A k \in {"attribute", "operator", "value", "values", "enabled"} :
       Prop(a, k) = Prop(b, k)
  /\ SameOrDropped(Prop(a, "description"), Prop(b, "description"), dropped)

SameTargeting(a, b, dropped) ==
  \/ a = Undefined /\ b = Undefined
  \/ a = Arr(<<>>) /\ b = Undefined /\ dropped # {}
  \/ /\ IsArray(a)
     /\ IsArray(b)
     /\ Len(a.a) = Len(b.a)
     /\ \A i \in 1..Len(a.a) : SameRule(a.a[i], b.a[i], dropped)

SameRollout(a, b, dropped) ==
  \/ a = Undefined /\ b = Undefined
  \/ /\ a # Undefined
     /\ b # Undefined
     /\ Prop(a, "percentage") = Prop(b, "percentage")
     /\ SameOrDropped(Prop(a, "seed"), Prop(b, "seed"), dropped)

SameFlag(a, b, dropped) ==
  /\ \A k \in {"enabled", "environments", "metadata"} : Prop(a, k) = Prop(b, k)
  /\ SameOrDropped(Prop(a, "description"), Prop(b, "description"), dropped)
  /\ SameRollout(Prop(a, "rollout"), Prop(b, "rollout"), dropped)
  /\ SameTargeting(Prop(a, "targeting"), Prop(b, "targeting"), dropped)

\* The configuration read back has the flags of c in the order of c, each
\* with the fields it has in c, but for the values in dropped.
ReadBack(c, r, dropped) ==
  /\ r.t = "return"
  /\ r.v.keys = ObjectKeys(c)
  /\ \A n \in Names(c) : SameFlag(c.o[n], r.v.o[n], dropped)

\* C26 as stated: for every valid configuration c, read() after write(c)
\* returns c: the same flags in the same order, every field of every flag
\* the same.
C26_RoundTrip ==
  last.op = "write" => ReadBack(last.config, read(file), {})

\* C26 amended: the same, except that an empty description of a flag or of
\* a rule, an empty rollout seed and an empty targeting list are not
\* written and are absent from the configuration read back.
C26_RoundTripButEmpties ==
  last.op = "write" => ReadBack(last.config, read(file), {Str("")})

\* A flag with a seeded rollout, a rule, environments and an empty
\* description has been written: it is read back without the description.
C26_Witness ==
  /\ last.op = "write"
  /\ last.config.keys = <<"f1">>
  /\ Prop(last.config.o["f1"], "description") = Str("")
  /\ Prop(last.config.o["f1"], "rollout") = SeededRollout
  /\ Prop(last.config.o["f1"], "targeting") = Arr(<<GoodRule>>)
  /\ read(file).t = "return"
  /\ Prop(read(file).v.o["f1"], "description") = Undefined
  /\ Prop(Prop(read(file).v.o["f1"], "rollout"), "seed") = Str("s1")

(***************************************************************************)
(* The CLI commands on the configuration file                              *)
(***************************************************************************)
\* Hand-written files that read() accepts.
InitialFiles ==
  {YamlFile(Null),
   YamlFile(Doc(<<"f1">>,
                [n \in {"f1"} |->
                   RawFlag(Bool(TRUE), Str("abc"), SeededRollout, Undefined,
                           Undefined, Undefined)])),
   YamlFile(Doc(<<"f2", "f1">>,
                [n \in FlagNames |->
                   IF n = "f1" THEN MinimalFlag
                   ELSE RawFlag(Bool(FALSE), Str(""),
                                Obj([percentage |-> Num(50)]),
                                Arr(<<GoodRule>>), GoodEnvironments,
                                Undefined)]))}

\* Flag names given on the command line, one of them invalid.
CommandNames == {"f1", "F1"}

\* Percentages given on the command line.
CommandPercentages == {Num(30), Num(101), NaN}

InitCLI ==
  /\ file \in InitialFiles
  /\ last = NoCall
  /\ config = <<>>
  /\ strict = FALSE
  /\ client = NoClient

\* devbolt create <flagName> --yes [--enabled] [--description] [--rollout]
CreateCommand(flagName, enabled, description, rollout) ==
  /\ \E r \in {createCommand(file, flagName, enabled, description, rollout)} :
       /\ file' = r.file
       /\ last' = [op |-> "create", flagName |-> flagName,
                   completion |-> r.completion]
  /\ UNCHANGED <<config, strict, client>>

\* devbolt rollout <flagName> <percentage>
RolloutCommand(flagName, percentage) ==
  /\ \E r \in {rolloutCommand(file, flagName, percentage)} :
       /\ file' = r.file
       /\ last' = [op |-> "rollout", flagName |-> flagName,
                   percentage |-> percentage, completion |-> r.completion,
                   before |-> file]
  /\ UNCHANGED <<config, strict, client>>

\* devbolt toggle/enable/disable <flagName> [--environment]
ToggleCommand(flagName, state, environment) ==
  /\ \E r \in {toggleCommand(file, flagName, state, environment)} :
       /\ file' = r.file
       /\ last' = [op |-> "toggle", flagName |-> flagName,
                   completion |-> r.completion]
  /\ UNCHANGED <<config, strict, client>>

\* devbolt remove <flagName> --force
RemoveCommand(flagName) ==
  /\ \E r \in {removeCommand(file, flagName)} :
       /\ file' = r.file
       /\ last' = [op |-> "remove", flagName |-> flagName,
                   completion |-> r.completion]
  /\ UNCHANGED <<config, strict, client>>

NextCLI ==
  \/ \E flagName \in CommandNames, enabled \in {Undefined, Bool(FALSE)},
        description \in {Undefined, Str("abc")},
        rollout \in {Undefined, Num(101)} :
       CreateCommand(flagName, enabled, description, rollout)
  \/ \E flagName \in CommandNames, percentage \in CommandPercentages :
       RolloutCommand(flagName, percentage)
  \/ \E flagName \in CommandNames, state \in {Undefined, Bool(TRUE)},
        environment \in {Undefined, Str("prod")} :
       ToggleCommand(flagName, state, environment)
  \/ \E flagName \in CommandNames : RemoveCommand(flagName)

SpecCLI == InitCLI /\ [][NextCLI]_vars

\* C29: the file, which read() accepted at the start, is accepted by read()
\* after every sequence of CLI commands with any flag name and any numeric
\* percentage: a command that would make it invalid is rejected and leaves
\* it as it was.
C29_FileStaysValid == read(file).t = "return"

\* The rollout command has just completed normally.
RolloutDone == last.op = "rollout" /\ last.completion = Done

\* What the rollout command was given and what it made of it: the flag in
\* the file before the command and the flag in the file after it.
FlagBefore(n) == last.before.parsed.o[n]
FlagAfter(n) == file.parsed.o[n]

\* C30: a completed rollout command has changed only rollout.percentage of
\* the named flag: the flag's rollout.seed and its other fields are what
\* they were, and so is every other flag (an empty description, seed or
\* targeting list that the rewrite of the file leaves out counts as
\* unchanged).
C30_OnlyPercentageChanges ==
  RolloutDone =>
    /\ file.parsed.keys = last.before.parsed.keys
    /\ \A n \in Names(file.parsed) :
         IF n = last.flagName
           THEN /\ SameFlag([FlagBefore(n) EXCEPT !.o.rollout = Undefined],
                            [FlagAfter(n) EXCEPT !.o.rollout = Undefined],
                            {Str("")})
                /\ Prop(Prop(FlagAfter(n), "rollout"), "percentage")
                     = last.percentage
                /\ SameOrDropped(Prop(Prop(FlagBefore(n), "rollout"), "seed"),
                                 Prop(Prop(FlagAfter(n), "rollout"), "seed"),
                                 {Str("")})
         ELSE SameFlag(FlagBefore(n), FlagAfter(n), {Str("")})

(***************************************************************************)
(* The rollout tier and Hasher.isInRollout                                 *)
(***************************************************************************)
\* The identifier and the seed FlagEvaluator.evaluateRollout hashes.
RolloutIdentifier == Or(Or(CTX.userId, CTX.email), Str("anonymous"))

RolloutSeed == Or(FC.rollout.seed, CTX.hashSeed)

\* C27: whenever the rollout tier decides, for a percentage in 0..100, the
\* decision of FlagEvaluator.evaluateRollout is the answer of
\* Hasher.isInRollout for the same flag name, identifier, percentage and
\* seed, also at the percentages 0 and 100 that isInRollout answers without
\* hashing.
C27_RolloutAgreesWithHasher ==
  (Evaluated /\ AtRolloutTier(FC, CTX)) =>
    /\ Returned
    /\ RES.enabled = isInRollout(last.flagName, RolloutIdentifier,
                                 FC.rollout.percentage, RolloutSeed)

\* The rollout tier decided at the boundary 100, and at the boundary 0 the
\* same call would be refused.
C27_Witness ==
  /\ Evaluated /\ AtRolloutTier(FC, CTX)
  /\ FC.rollout.percentage = 100
  /\ RES.enabled
  /\ RES.metadata.rolloutBucket # Undefined
  /\ ~isInRollout(last.flagName, RolloutIdentifier, 0, RolloutSeed)

(***************************************************************************)
(* The result's metadata and the tier that decided                         *)
(***************************************************************************)
\* The latest evaluate got past the environment tier and the global switch.
ReachedTargeting ==
  /\ Evaluated
  /\ ~Truthy(evaluateEnvironment(last.flagName, FC, CTX))
  /\ FC.enabled

\* A targeting rule decided the latest evaluate.
TargetingDecided == ReachedTargeting /\ Matching(FC, CTX) # {}

\* The rollout tier decided the latest evaluate.
RolloutDecided ==
  ReachedTargeting /\ Matching(FC, CTX) = {} /\ FC.rollout # Undefined

\* C28: in every result of evaluate, metadata.matchedRule is present
\* exactly when a targeting rule decided and metadata.rolloutBucket exactly
\* when the rollout tier decided; the two are never both present, and
\* neither is present in an environment-override, a globally-disabled, a
\* default and a flag-not-found result.
C28_MetadataNamesTier ==
  (IsEvaluate /\ Returned) =>
    /\ (RES.metadata.matchedRule # Undefined) <=> TargetingDecided
    /\ (RES.metadata.rolloutBucket # Undefined) <=> RolloutDecided
    /\ ~(RES.metadata.matchedRule # Undefined
           /\ RES.metadata.rolloutBucket # Undefined)
    /\ (RES.reason.text \in {"Environment override: ",
                             "Flag is disabled globally",
                             "Flag is enabled for all users",
                             "Flag not found"})
         => RES.metadata = NoMetadata

\* A rule decided for a flag that has a rollout as well: the result names
\* the rule and no bucket.
C28_Witness ==
  /\ Evaluated /\ Returned
  /\ TargetingDecided
  /\ FC.rollout # Undefined
  /\ RES.metadata.matchedRule # Undefined
  /\ RES.metadata.rolloutBucket = Undefined

====
